---- MODULE Spec2Model ----
(***************************************************************************)
(* Model of the unmanaged-cluster configuration package                   *)
(* (src/unnamed/part_001, lines 1-669): InitializeConfiguration with its  *)
(* field setters, GenerateDefaultConfig, the mapping parsers              *)
(* ParsePortMappings and ParseInstallPackageMappings, fieldNameToEnvName,  *)
(* and RenderConfigToFile with RenderFileToConfig; and of the commands     *)
(* hostagent and makeVm of the unmanaged-cluster plugin. Each operation    *)
(* has its own variables and its own specification; the variables of the  *)
(* other operations stay idle.                                             *)
(*                                                                         *)
(* Go strings are modelled as sequences of one-character strings, so that *)
(* strings.Split, strings.ToLower, strconv.Atoi, strconv.ParseBool, the   *)
(* regular expression of fieldNameToEnvName and filepath.Join are         *)
(* computed character by character as the library computes them.          *)
(***************************************************************************)
EXTENDS Integers, Sequences, FiniteSets, TLC

VARIABLES
    \* --- InitializeConfiguration -------------------------------------
    commandArgs,    \* map[string]interface{}: yaml name -> value
    env,            \* process environment: variable name -> value
    fsFile,         \* the config file at the path given in commandArgs
    config,         \* the *UnmanagedClusterConfig under construction
    pc,             \* position in InitializeConfiguration
    ret,            \* what InitializeConfiguration returned
    \* --- ParsePortMappings --------------------------------------------
    pmShape,        \* how the input strings were put together
    portMappings,   \* the argument of ParsePortMappings
    pmPc,           \* position of the call
    pmRet,          \* what ParsePortMappings returned
    \* --- ParseInstallPackageMappings ----------------------------------
    ipShape,        \* how the input strings were put together
    packageMappings,  \* the argument of ParseInstallPackageMappings
    ipPc,           \* position of the call
    ipRet,          \* what ParseInstallPackageMappings returned
    \* --- RenderConfigToFile / RenderFileToConfig ----------------------
    disk,           \* what is at filePath: nothing, a file, a directory
    diskInit,       \* what was at filePath before the first call
    canCreate,      \* whether a file can be created at filePath
    written,        \* the configurations of the calls that wrote the file
    rcErr,          \* the error of the last RenderConfigToFile
    rfRet,          \* what the last RenderFileToConfig returned
    lastCall,       \* the operation called last
    \* --- fieldNameToEnvName and the lookup of a setter ----------------
    enShape,        \* how the field name was put together
    enField,        \* the struct field: Go name, yaml name, type
    enPc,           \* position of the calls
    enRet,          \* what fieldNameToEnvName returned
    enSet,          \* what the setter of the field left in the struct
    \* --- GenerateDefaultConfig ----------------------------------------
    gdEnv,          \* process environment: variable name -> value
    gdConfig,       \* the *UnmanagedClusterConfig under construction
    gdPc,           \* position in GenerateDefaultConfig
    \* --- hostagentRun -------------------------------------------------
    haFlags,        \* the values of the flags pidfile, socket, nerdctl-archive
    haUndefined,    \* the flags whose lookup on cmd.Flags() fails
    haArgs,         \* args
    haDiskInit,     \* what was at each path before the call
    haDisk,         \* what is at each path
    haPc,           \* position in hostagentRun
    haDeferred,     \* the paths of the deferred os.RemoveAll calls
    haCalls,        \* the calls made so far, in order
    haRet,          \* what hostagentRun returned
    haServer,       \* the goroutine that serves the socket
    \* --- makeVm -------------------------------------------------------
    mvTty,          \* the tty-disable flag
    mvPc,           \* position in makeVm
    mvCalls,        \* the calls made so far with their results, in order
    mvLog,          \* what was logged
    mvRet           \* what makeVm returned

cfgVars == <<commandArgs, env, fsFile, config, pc, ret>>
pmVars == <<pmShape, portMappings, pmPc, pmRet>>
ipVars == <<ipShape, packageMappings, ipPc, ipRet>>
vars == <<commandArgs, env, fsFile, config, pc, ret,
          pmShape, portMappings, pmPc, pmRet,
          ipShape, packageMappings, ipPc, ipRet,
          disk, diskInit, canCreate, written, rcErr, rfRet, lastCall,
          enShape, enField, enPc, enRet, enSet,
          gdEnv, gdConfig, gdPc,
          haFlags, haUndefined, haArgs, haDiskInit, haDisk, haPc, haDeferred,
          haCalls, haRet, haServer,
          mvTty, mvPc, mvCalls, mvLog, mvRet>>
enVars == <<enShape, enField, enPc, enRet, enSet>>
renderVars == <<disk, diskInit, canCreate, written, rcErr, rfRet, lastCall>>
gdVars == <<gdEnv, gdConfig, gdPc>>
haVars == <<haFlags, haUndefined, haArgs, haDiskInit, haDisk, haPc, haDeferred,
            haCalls, haRet, haServer>>
mvVars == <<mvTty, mvPc, mvCalls, mvLog, mvRet>>
cmdVars == <<haVars, mvVars>>

\* The variables that belong to the other operations.
notCfgVars == <<pmVars, ipVars, renderVars, enVars, gdVars, cmdVars>>
notPmVars == <<cfgVars, ipVars, renderVars, enVars, gdVars, cmdVars>>
notIpVars == <<cfgVars, pmVars, renderVars, enVars, gdVars, cmdVars>>
notRenderVars == <<cfgVars, pmVars, ipVars, enVars, gdVars, cmdVars>>
notEnVars == <<cfgVars, pmVars, ipVars, renderVars, gdVars, cmdVars>>
notGdVars == <<cfgVars, pmVars, ipVars, renderVars, enVars, cmdVars>>
notCmdVars == <<cfgVars, pmVars, ipVars, renderVars, enVars, gdVars>>

----------------------------------------------------------------------------
(* Strings                                                                 *)

Lowers == <<"a","b","c","d","e","f","g","h","i","j","k","l","m",
            "n","o","p","q","r","s","t","u","v","w","x","y","z">>
Uppers == <<"A","B","C","D","E","F","G","H","I","J","K","L","M",
            "N","O","P","Q","R","S","T","U","V","W","X","Y","Z">>
Digits == <<"0","1","2","3","4","5","6","7","8","9">>

UpperSet == { Uppers[i] : i \in 1..Len(Uppers) }
LowerSet == { Lowers[i] : i \in 1..Len(Lowers) }
DigitSet == { Digits[i] : i \in 1..Len(Digits) }
LowerOfUpper == [c \in UpperSet |-> Lowers[CHOOSE i \in 1..Len(Uppers) : Uppers[i] = c]]
UpperOfLower == [c \in LowerSet |-> Uppers[CHOOSE i \in 1..Len(Lowers) : Lowers[i] = c]]
ValueOfDigit == [c \in DigitSet |-> (CHOOSE i \in 1..Len(Digits) : Digits[i] = c) - 1]

IsUpper(c) == c \in UpperSet
IsLower(c) == c \in LowerSet
IsDigit(c) == c \in DigitSet
DigitVal(c) == ValueOfDigit[c]

LowerChar(c) == IF IsUpper(c) THEN LowerOfUpper[c] ELSE c
UpperChar(c) == IF IsLower(c) THEN UpperOfLower[c] ELSE c

\* strings.ToLower / strings.ToUpper
ToLower(s) == [i \in 1..Len(s) |-> LowerChar(s[i])]
ToUpper(s) == [i \in 1..Len(s) |-> UpperChar(s[i])]

\* strings.HasPrefix
HasPrefix(s, p) == Len(s) >= Len(p) /\ SubSeq(s, 1, Len(p)) = p

\* strings.Split(s, sep) for a one-character separator: always at least one
\* part, the parts between the separators, empty parts kept.
RECURSIVE SplitFrom(_, _, _, _, _)
SplitFrom(s, sep, i, cur, acc) ==
    IF i > Len(s) THEN Append(acc, cur)
    ELSE IF s[i] = sep THEN SplitFrom(s, sep, i + 1, <<>>, Append(acc, cur))
    ELSE SplitFrom(s, sep, i + 1, Append(cur, s[i]), acc)
Split(s, sep) == SplitFrom(s, sep, 1, <<>>, <<>>)

\* strings.Join(parts, sep)
RECURSIVE JoinStr(_, _)
JoinStr(parts, sep) ==
    IF Len(parts) = 0 THEN <<>>
    ELSE IF Len(parts) = 1 THEN parts[1]
    ELSE parts[1] \o sep \o JoinStr(Tail(parts), sep)

\* strconv.Atoi: an optional sign, then one or more decimal digits.
RECURSIVE DigitsVal(_, _)
DigitsVal(s, acc) ==
    IF Len(s) = 0 THEN acc ELSE DigitsVal(Tail(s), acc * 10 + DigitVal(s[1]))
Atoi(s) ==
    LET signed == Len(s) > 0 /\ s[1] \in {"+", "-"}
        body == IF signed THEN Tail(s) ELSE s
        ok == Len(body) > 0 /\ \A i \in 1..Len(body) : IsDigit(body[i])
        mag == IF ok THEN DigitsVal(body, 0) ELSE 0
    IN [ok |-> ok,
        val |-> IF signed /\ s[1] = "-" THEN 0 - mag ELSE mag]

----------------------------------------------------------------------------
(* ParsePortMappings                                                       *)

ProtocolTCP == <<"t","c","p">>
ProtocolUDP == <<"u","d","p">>
ProtocolSCTP == <<"s","c","t","p">>

\* PortMap{}
ZeroPortMap ==
    [ListenAddress |-> <<>>, HostPort |-> 0, ContainerPort |-> 0, Protocol |-> <<>>]

\* ProtocolOf with the protocol stored as written (strings.ToLower left out of
\* the assignment).
ProtocolOf_AsWritten(slashParts) ==
    IF Len(slashParts) = 2
    THEN LET p == ToLower(slashParts[2])
         IN IF p # ProtocolTCP /\ p # ProtocolUDP /\ p # ProtocolSCTP
            THEN [err |-> "protocol", Protocol |-> <<>>]
            ELSE [err |-> "nil", Protocol |-> slashParts[2]]
    ELSE [err |-> "nil", Protocol |-> <<>>]

\* The protocol step of the loop body: the mapping split on "/"; with exactly
\* two parts the second, lower-cased, has to be a known protocol.
ProtocolOf(slashParts) ==
    IF Len(slashParts) = 2
    THEN LET p == ToLower(slashParts[2])
         IN IF p # ProtocolTCP /\ p # ProtocolUDP /\ p # ProtocolSCTP
            THEN [err |-> "protocol", Protocol |-> <<>>]
            ELSE [err |-> "nil", Protocol |-> p]
    ELSE [err |-> "nil", Protocol |-> <<>>]

\* PortsOf with the two-part form read as hostPort:containerPort.
PortsOf_HostFirst(parts, result) ==
    CASE Len(parts) = 3 ->
           LET containerPort == Atoi(parts[2])
               hostPort == Atoi(parts[3])
           IN IF ~containerPort.ok THEN [err |-> "container port", pm |-> ZeroPortMap]
              ELSE IF ~hostPort.ok THEN [err |-> "host port", pm |-> ZeroPortMap]
              ELSE [err |-> "nil",
                    pm |-> [result EXCEPT !.ListenAddress = parts[1],
                                          !.ContainerPort = containerPort.val,
                                          !.HostPort = hostPort.val]]
      [] Len(parts) = 2 ->
           LET containerPort == Atoi(parts[2])
               hostPort == Atoi(parts[1])
           IN IF ~containerPort.ok THEN [err |-> "container port", pm |-> ZeroPortMap]
              ELSE IF ~hostPort.ok THEN [err |-> "host port", pm |-> ZeroPortMap]
              ELSE [err |-> "nil",
                    pm |-> [result EXCEPT !.ContainerPort = containerPort.val,
                                          !.HostPort = hostPort.val]]
      [] Len(parts) = 1 ->
           LET p == Atoi(parts[1])
           IN IF ~p.ok THEN [err |-> "container port", pm |-> ZeroPortMap]
              ELSE [err |-> "nil", pm |-> [result EXCEPT !.ContainerPort = p.val]]
      [] OTHER -> [err |-> "format", pm |-> ZeroPortMap]

\* The switch on the number of ":"-separated parts of the text before "/".
PortsOf(parts, result) ==
    CASE Len(parts) = 3 ->
           LET containerPort == Atoi(parts[2])
               hostPort == Atoi(parts[3])
           IN IF ~containerPort.ok THEN [err |-> "container port", pm |-> ZeroPortMap]
              ELSE IF ~hostPort.ok THEN [err |-> "host port", pm |-> ZeroPortMap]
              ELSE [err |-> "nil",
                    pm |-> [result EXCEPT !.ListenAddress = parts[1],
                                          !.ContainerPort = containerPort.val,
                                          !.HostPort = hostPort.val]]
      [] Len(parts) = 2 ->
           LET containerPort == Atoi(parts[1])
               hostPort == Atoi(parts[2])
           IN IF ~containerPort.ok THEN [err |-> "container port", pm |-> ZeroPortMap]
              ELSE IF ~hostPort.ok THEN [err |-> "host port", pm |-> ZeroPortMap]
              ELSE [err |-> "nil",
                    pm |-> [result EXCEPT !.ContainerPort = containerPort.val,
                                          !.HostPort = hostPort.val]]
      [] Len(parts) = 1 ->
           LET p == Atoi(parts[1])
           IN IF ~p.ok THEN [err |-> "container port", pm |-> ZeroPortMap]
              ELSE [err |-> "nil", pm |-> [result EXCEPT !.ContainerPort = p.val]]
      [] OTHER -> [err |-> "format", pm |-> ZeroPortMap]

\* One iteration of the loop of ParsePortMappings.
ParsePortMap(pm) ==
    LET slashParts == Split(pm, "/")
        proto == ProtocolOf(slashParts)
    IN IF proto.err # "nil" THEN [err |-> proto.err, pm |-> ZeroPortMap]
       ELSE PortsOf(Split(slashParts[1], ":"),
                    [ZeroPortMap EXCEPT !.Protocol = proto.Protocol])

\* ParsePortMappingsFrom that returns the records parsed before the error
\* together with the error.
RECURSIVE ParsePortMappingsFrom_KeepParsed(_, _)
ParsePortMappingsFrom_KeepParsed(rest, mappings) ==
    IF Len(rest) = 0 THEN [mappings |-> mappings, err |-> "nil"]
    ELSE LET one == ParsePortMap(rest[1])
         IN IF one.err # "nil" THEN [mappings |-> mappings, err |-> one.err]
            ELSE ParsePortMappingsFrom_KeepParsed(Tail(rest), Append(mappings, one.pm))

\* ParsePortMappings: the records of all mappings, or nil and the first error.
RECURSIVE ParsePortMappingsFrom(_, _)
ParsePortMappingsFrom(rest, mappings) ==
    IF Len(rest) = 0 THEN [mappings |-> mappings, err |-> "nil"]
    ELSE LET one == ParsePortMap(rest[1])
         IN IF one.err # "nil" THEN [mappings |-> <<>>, err |-> one.err]
            ELSE ParsePortMappingsFrom(Tail(rest), Append(mappings, one.pm))
ParsePortMappings(strs) == ParsePortMappingsFrom(strs, <<>>)

----------------------------------------------------------------------------
(* The calls of ParsePortMappings that are explored                        *)

MaxColonParts == 4      \* most ":"-separated parts of one generated mapping
MaxBatch == 2           \* most mappings in one call

\* Texts put between the ":" of a mapping, with the number a port text stands
\* for.
PortTokens ==
    { [text |-> <<"8","0">>, isNum |-> TRUE, num |-> 80],
      [text |-> <<"8","0","8","0">>, isNum |-> TRUE, num |-> 8080],
      [text |-> <<"1","2","7",".","0",".","0",".","1">>, isNum |-> FALSE, num |-> 0],
      [text |-> <<>>, isNum |-> FALSE, num |-> 0] }

\* Texts put after a "/", with their lower-case form.
ProtoTokens ==
    { [text |-> <<"t","c","p">>, lower |-> <<"t","c","p">>, known |-> TRUE],
      [text |-> <<"U","D","P">>, lower |-> <<"u","d","p">>, known |-> TRUE],
      [text |-> <<"S","c","t","p">>, lower |-> <<"s","c","t","p">>, known |-> TRUE],
      [text |-> <<"x","y","z">>, lower |-> <<"x","y","z">>, known |-> FALSE],
      [text |-> <<>>, lower |-> <<>>, known |-> FALSE] }

SlashTails ==
    { <<>> } \cup { <<p>> : p \in ProtoTokens }
    \cup { << [text |-> <<"t","c","p">>, lower |-> <<"t","c","p">>, known |-> TRUE],
              [text |-> <<"U","D","P">>, lower |-> <<"u","d","p">>, known |-> TRUE] >>,
           << [text |-> <<"x","y","z">>, lower |-> <<"x","y","z">>, known |-> FALSE],
              [text |-> <<"t","c","p">>, lower |-> <<"t","c","p">>, known |-> TRUE] >> }

PartSeqs == UNION { [1..n -> PortTokens] : n \in 1..MaxColonParts }

MappingShapes == { [parts |-> ps, protos |-> sl] : ps \in PartSeqs, sl \in SlashTails }

\* The mappings that follow the first one of a batch.
TailShapes ==
    { [parts |-> << [text |-> <<"8","0">>, isNum |-> TRUE, num |-> 80] >>, protos |-> <<>>],
      [parts |-> << [text |-> <<"8","0">>, isNum |-> TRUE, num |-> 80],
                    [text |-> <<>>, isNum |-> FALSE, num |-> 0] >>, protos |-> <<>>],
      [parts |-> << [text |-> <<>>, isNum |-> FALSE, num |-> 0],
                    [text |-> <<"8","0">>, isNum |-> TRUE, num |-> 80],
                    [text |-> <<"8","0","8","0">>, isNum |-> TRUE, num |-> 8080] >>,
       protos |-> << [text |-> <<"U","D","P">>, lower |-> <<"u","d","p">>, known |-> TRUE] >>] }

BatchShapes ==
    { <<first>> \o rest :
        first \in MappingShapes,
        rest \in UNION { [1..n -> TailShapes] : n \in 0..(MaxBatch - 1) } }

RECURSIVE SlashText(_)
SlashText(protos) ==
    IF Len(protos) = 0 THEN <<>>
    ELSE <<"/">> \o protos[1].text \o SlashText(Tail(protos))

\* The command line text of a mapping: the parts joined by ":", then "/" and
\* a protocol text for every element of protos.
MappingText(shape) ==
    JoinStr([i \in 1..Len(shape.parts) |-> shape.parts[i].text], <<":">>)
        \o SlashText(shape.protos)

CfgIdle ==
    /\ commandArgs = <<>>
    /\ env = <<>>
    /\ fsFile = <<>>
    /\ config = <<>>
    /\ pc = "idle"
    /\ ret = <<>>

IpIdle ==
    /\ ipShape = <<>>
    /\ packageMappings = <<>>
    /\ ipPc = "idle"
    /\ ipRet = <<>>

RenderIdle ==
    /\ disk = <<>>
    /\ diskInit = <<>>
    /\ canCreate = FALSE
    /\ written = <<>>
    /\ rcErr = "idle"
    /\ rfRet = <<>>
    /\ lastCall = "idle"

EnIdle ==
    /\ enShape = <<>>
    /\ enField = <<>>
    /\ enPc = "idle"
    /\ enRet = <<>>
    /\ enSet = <<>>

GdIdle ==
    /\ gdEnv = <<>>
    /\ gdConfig = <<>>
    /\ gdPc = "idle"

CmdIdle ==
    /\ haFlags = <<>>
    /\ haUndefined = {}
    /\ haArgs = <<>>
    /\ haDiskInit = <<>>
    /\ haDisk = <<>>
    /\ haPc = "idle"
    /\ haDeferred = <<>>
    /\ haCalls = <<>>
    /\ haRet = "idle"
    /\ haServer = "idle"
    /\ mvTty = FALSE
    /\ mvPc = "idle"
    /\ mvCalls = <<>>
    /\ mvLog = <<>>
    /\ mvRet = "idle"

PmInit ==
    /\ CfgIdle
    /\ IpIdle
    /\ RenderIdle
    /\ EnIdle
    /\ GdIdle
    /\ CmdIdle
    /\ pmShape \in BatchShapes
    /\ portMappings = [i \in 1..Len(pmShape) |-> MappingText(pmShape[i])]
    /\ pmPc = "start"
    /\ pmRet = [mappings |-> <<>>, err |-> "nil"]

\* mappings, err := ParsePortMappings(portMappings)
CallParsePortMappings ==
    /\ pmPc = "start"
    /\ pmRet' = ParsePortMappings(portMappings)
    /\ pmPc' = "done"
    /\ UNCHANGED <<pmShape, portMappings>>
    /\ UNCHANGED notPmVars

PmNext == CallParsePortMappings

SpecPortMap == PmInit /\ [][PmNext]_vars

----------------------------------------------------------------------------
(* Properties of ParsePortMappings                                         *)

PmDone == pmPc = "done"
PmAccepted == PmDone /\ pmRet.err = "nil"

\* A mapping that the grammar and the code agree to be complete: at most one
\* "/", a known protocol after it, one to three parts, numbers where ports go.
PortPositionsNumeric(shape) ==
    LET n == Len(shape.parts)
    IN CASE n = 1 -> shape.parts[1].isNum
         [] n = 2 -> shape.parts[1].isNum /\ shape.parts[2].isNum
         [] n = 3 -> shape.parts[2].isNum /\ shape.parts[3].isNum
         [] OTHER -> FALSE
ProtocolWellFormed(shape) ==
    \/ Len(shape.protos) = 0
    \/ Len(shape.protos) = 1 /\ shape.protos[1].known

\* The fields the positions of a mapping name (the protocol left aside).
ExpectedPorts(shape) ==
    LET n == Len(shape.parts)
    IN CASE n = 1 -> [ListenAddress |-> <<>>, ContainerPort |-> shape.parts[1].num,
                      HostPort |-> 0]
         [] n = 2 -> [ListenAddress |-> <<>>, ContainerPort |-> shape.parts[1].num,
                      HostPort |-> shape.parts[2].num]
         [] OTHER -> [ListenAddress |-> shape.parts[1].text,
                      ContainerPort |-> shape.parts[2].num,
                      HostPort |-> shape.parts[3].num]

\* C9: ParsePortMappings rejects every mapping whose text before "/" has a
\* number of ":"-separated parts other than 1, 2 or 3; a mapping with 1, 2 or
\* 3 parts (numeric ports, well-formed protocol) is accepted; and an accepted
\* mapping has ContainerPort (1 part), ContainerPort and HostPort (2 parts) or
\* ListenAddress, ContainerPort and HostPort (3 parts) set from its parts in
\* that order, every field not named keeping its zero value.
C9_PartCount ==
    PmDone =>
      /\ (\E k \in 1..Len(pmShape) : Len(pmShape[k].parts) \notin {1, 2, 3})
            => pmRet.err # "nil"
      /\ (\A k \in 1..Len(pmShape) :
              /\ Len(pmShape[k].parts) \in {1, 2, 3}
              /\ PortPositionsNumeric(pmShape[k])
              /\ ProtocolWellFormed(pmShape[k]))
            => pmRet.err = "nil"
      /\ pmRet.err = "nil" =>
            /\ Len(pmRet.mappings) = Len(pmShape)
            /\ \A k \in 1..Len(pmShape) :
                 /\ Len(pmShape[k].parts) \in {1, 2, 3}
                 /\ pmRet.mappings[k].ListenAddress = ExpectedPorts(pmShape[k]).ListenAddress
                 /\ pmRet.mappings[k].ContainerPort = ExpectedPorts(pmShape[k]).ContainerPort
                 /\ pmRet.mappings[k].HostPort = ExpectedPorts(pmShape[k]).HostPort

\* "127.0.0.1:80:8080/tcp" parsed into all four fields, followed by "80"
\* parsed into ContainerPort alone.
C9_Witness ==
    /\ PmAccepted
    /\ Len(pmShape) = 2
    /\ portMappings[1] = <<"1","2","7",".","0",".","0",".","1",":","8","0",":",
                           "8","0","8","0","/","t","c","p">>
    /\ pmRet.mappings[1] = [ListenAddress |-> <<"1","2","7",".","0",".","0",".","1">>,
                            ContainerPort |-> 80, HostPort |-> 8080,
                            Protocol |-> <<"t","c","p">>]
    /\ portMappings[2] = <<"8","0">>
    /\ pmRet.mappings[2] = [ListenAddress |-> <<>>, ContainerPort |-> 80,
                            HostPort |-> 0, Protocol |-> <<>>]

\* C10: when a mapping splits on "/" into two parts, a second part that is
\* not tcp, udp or sctp in any letter case makes ParsePortMappings return an
\* error; an accepted protocol is stored lower-cased; a mapping without "/"
\* leaves Protocol empty.
C10_Protocol ==
    PmDone =>
      /\ (\E k \in 1..Len(pmShape) :
              Len(pmShape[k].protos) = 1 /\ ~pmShape[k].protos[1].known)
            => pmRet.err # "nil"
      /\ pmRet.err = "nil" =>
            \A k \in 1..Len(pmShape) :
              /\ Len(pmShape[k].protos) = 1 =>
                    /\ pmShape[k].protos[1].known
                    /\ pmRet.mappings[k].Protocol = pmShape[k].protos[1].lower
              /\ Len(pmShape[k].protos) = 0 => pmRet.mappings[k].Protocol = <<>>

\* "80:8080/Sctp" accepted with Protocol "sctp", and ":80:8080/UDP" with "udp".
C10_Witness ==
    /\ PmAccepted
    /\ Len(pmShape) = 2
    /\ portMappings[1] = <<"8","0",":","8","0","8","0","/","S","c","t","p">>
    /\ pmRet.mappings[1].Protocol = <<"s","c","t","p">>
    /\ portMappings[2] = <<":","8","0",":","8","0","8","0","/","U","D","P">>
    /\ pmRet.mappings[2].Protocol = <<"u","d","p">>

\* The protocol step lets the mapping through: no "/", a known protocol after
\* the only "/", or more than one "/".
ProtocolStepPasses(shape) == Len(shape.protos) # 1 \/ shape.protos[1].known

\* The mapping has 1, 2 or 3 parts and a port position that is no number.
NonNumericPort(shape) ==
    Len(shape.parts) \in {1, 2, 3} /\ ~PortPositionsNumeric(shape)

\* The part in the container port position.
ContainerPortPart(shape) ==
    IF Len(shape.parts) = 3 THEN shape.parts[2] ELSE shape.parts[1]

\* C11: a mapping with 1, 2 or 3 parts one of whose port positions (container
\* port, host port) is no base-10 integer makes ParsePortMappings return an
\* error; every error comes without records, also when the mappings before the
\* failing one were parsed; and when the mappings before it are accepted, the
\* error names the container port if that is no number and the host port
\* otherwise.
C11_PortsNumeric ==
    PmDone =>
      /\ (\E k \in 1..Len(pmShape) : NonNumericPort(pmShape[k])) => pmRet.err # "nil"
      /\ pmRet.err # "nil" => pmRet.mappings = <<>>
      /\ \A k \in 1..Len(pmShape) :
            (/\ NonNumericPort(pmShape[k])
             /\ ProtocolStepPasses(pmShape[k])
             /\ \A j \in 1..(k - 1) :
                   /\ Len(pmShape[j].parts) \in {1, 2, 3}
                   /\ PortPositionsNumeric(pmShape[j])
                   /\ ProtocolStepPasses(pmShape[j]))
            => pmRet.err = IF ~ContainerPortPart(pmShape[k]).isNum
                           THEN "container port" ELSE "host port"

\* "80" is parsed, then "80:" fails on its host port: the call returns the
\* host port error and no records.
C11_Witness ==
    /\ PmDone
    /\ Len(pmShape) = 2
    /\ portMappings[1] = <<"8","0">>
    /\ portMappings[2] = <<"8","0",":">>
    /\ pmRet.err = "host port"
    /\ pmRet.mappings = <<>>

----------------------------------------------------------------------------
(* The configuration: option keys, defaults and the struct                 *)

\* Option keys (the const block), as Go strings.
ClusterConfigFile == <<"C","l","u","s","t","e","r","C","o","n","f","i","g","F","i","l","e">>
Tty == <<"T","t","y">>
ClusterName == <<"C","l","u","s","t","e","r","N","a","m","e">>
KubeconfigPath == <<"K","u","b","e","c","o","n","f","i","g","P","a","t","h">>
ExistingClusterKubeconfig == <<"E","x","i","s","t","i","n","g","C","l","u","s","t","e","r","K","u","b","e","c","o","n","f","i","g">>
NodeImage == <<"N","o","d","e","I","m","a","g","e">>
Provider == <<"P","r","o","v","i","d","e","r">>
Cni == <<"C","n","i">>
PodCIDR == <<"P","o","d","C","i","d","r">>
ServiceCIDR == <<"S","e","r","v","i","c","e","C","i","d","r">>
TKRLocation == <<"T","k","r","L","o","c","a","t","i","o","n">>
AdditionalPackageRepos == <<"A","d","d","i","t","i","o","n","a","l","P","a","c","k","a","g","e","R","e","p","o","s">>
PortsToForward == <<"P","o","r","t","s","T","o","F","o","r","w","a","r","d">>
SkipPreflightChecks == <<"S","k","i","p","P","r","e","f","l","i","g","h","t","C","h","e","c","k","s">>
ControlPlaneNodeCount == <<"C","o","n","t","r","o","l","P","l","a","n","e","N","o","d","e","C","o","u","n","t">>
WorkerNodeCount == <<"W","o","r","k","e","r","N","o","d","e","C","o","u","n","t">>
InstallPackages == <<"I","n","s","t","a","l","l","P","a","c","k","a","g","e","s">>
LogFile == <<"L","o","g","F","i","l","e">>

\* defaultConfigValues with a default for the cluster name.
defaultConfigValues_WithClusterName ==
    (ClusterName :> <<"d","e","f","a","u","l","t","-","n","a","m","e">>)
    @@ (Provider :> <<"k","i","n","d">>)
    @@ (Cni :> <<"c","a","l","i","c","o">>)
    @@ (PodCIDR :> <<"1","0",".","2","4","4",".","0",".","0","/","1","6">>)
    @@ (ServiceCIDR :> <<"1","0",".","9","6",".","0",".","0","/","1","6">>)
    @@ (Tty :> <<"t","r","u","e">>)
    @@ (ControlPlaneNodeCount :> <<"1">>)
    @@ (WorkerNodeCount :> <<"0">>)

\* defaultConfigValues
defaultConfigValues ==
    (Provider :> <<"k","i","n","d">>)
    @@ (Cni :> <<"c","a","l","i","c","o">>)
    @@ (PodCIDR :> <<"1","0",".","2","4","4",".","0",".","0","/","1","6">>)
    @@ (ServiceCIDR :> <<"1","0",".","9","6",".","0",".","0","/","1","6">>)
    @@ (Tty :> <<"t","r","u","e">>)
    @@ (ControlPlaneNodeCount :> <<"1">>)
    @@ (WorkerNodeCount :> <<"0">>)

\* The fields of UnmanagedClusterConfig in declaration order: the Go name,
\* the yaml tag and the type the switch of the field loop sees.
StructFields ==
    << [name |-> "ClusterName", yaml |-> <<"C","l","u","s","t","e","r","N","a","m","e">>,
        type |-> "string"],
       [name |-> "KubeconfigPath", yaml |-> <<"K","u","b","e","c","o","n","f","i","g","P","a","t","h">>,
        type |-> "string"],
       [name |-> "ExistingClusterKubeconfig", yaml |-> <<"E","x","i","s","t","i","n","g","C","l","u","s","t","e","r","K","u","b","e","c","o","n","f","i","g">>,
        type |-> "string"],
       [name |-> "NodeImage", yaml |-> <<"N","o","d","e","I","m","a","g","e">>,
        type |-> "string"],
       [name |-> "Provider", yaml |-> <<"P","r","o","v","i","d","e","r">>,
        type |-> "string"],
       [name |-> "ProviderConfiguration", yaml |-> <<"P","r","o","v","i","d","e","r","C","o","n","f","i","g","u","r","a","t","i","o","n">>,
        type |-> "map"],
       [name |-> "Cni", yaml |-> <<"C","n","i">>,
        type |-> "string"],
       [name |-> "CNIConfiguration", yaml |-> <<"C","n","i","C","o","n","f","i","g","u","r","a","t","i","o","n">>,
        type |-> "map"],
       [name |-> "PodCidr", yaml |-> <<"P","o","d","C","i","d","r">>,
        type |-> "string"],
       [name |-> "ServiceCidr", yaml |-> <<"S","e","r","v","i","c","e","C","i","d","r">>,
        type |-> "string"],
       [name |-> "TkrLocation", yaml |-> <<"T","k","r","L","o","c","a","t","i","o","n">>,
        type |-> "string"],
       [name |-> "AdditionalPackageRepos", yaml |-> <<"A","d","d","i","t","i","o","n","a","l","P","a","c","k","a","g","e","R","e","p","o","s">>,
        type |-> "[]string"],
       [name |-> "PortsToForward", yaml |-> <<"P","o","r","t","s","T","o","F","o","r","w","a","r","d">>,
        type |-> "[]PortMap"],
       [name |-> "SkipPreflightChecks", yaml |-> <<"S","k","i","p","P","r","e","f","l","i","g","h","t","C","h","e","c","k","s">>,
        type |-> "bool"],
       [name |-> "ControlPlaneNodeCount", yaml |-> <<"C","o","n","t","r","o","l","P","l","a","n","e","N","o","d","e","C","o","u","n","t">>,
        type |-> "string"],
       [name |-> "WorkerNodeCount", yaml |-> <<"W","o","r","k","e","r","N","o","d","e","C","o","u","n","t">>,
        type |-> "string"],
       [name |-> "InstallPackages", yaml |-> <<"I","n","s","t","a","l","l","P","a","c","k","a","g","e","s">>,
        type |-> "[]InstallPackage"],
       [name |-> "LogFile", yaml |-> <<"L","o","g","F","i","l","e">>,
        type |-> "string"] >>

NumField == Len(StructFields)
FieldNames == { StructFields[i].name : i \in 1..NumField }

\* A map[string]interface{} field: nil, or the set of its keys.
NilMap == [nil |-> TRUE, keys |-> {}]

\* The zero value of a field of the struct.
ZeroOf(type) ==
    CASE type = "string" -> <<>>
      [] type = "bool" -> FALSE
      [] type = "map" -> NilMap
      [] OTHER -> <<>>

\* &UnmanagedClusterConfig{}
ZeroConfig ==
    [n \in FieldNames |->
        ZeroOf(StructFields[CHOOSE i \in 1..NumField : StructFields[i].name = n].type)]

----------------------------------------------------------------------------
(* Environment, path and reflection helpers                                *)

\* Getenv that also answers with a variable whose name only starts with the
\* name asked for.
Getenv_Prefix(e, name) ==
    IF \E n \in DOMAIN e : HasPrefix(n, name)
    THEN e[CHOOSE n \in DOMAIN e : HasPrefix(n, name)]
    ELSE <<>>

\* os.Getenv: the value of the variable, empty when it is not set.
Getenv(e, name) == IF name \in DOMAIN e THEN e[name] ELSE <<>>

\* regexp `[A-Z][^A-Z]*`, FindAllString(field, -1): a word starts at every
\* upper-case letter and runs up to the next one; text before the first
\* upper-case letter belongs to no word.
RECURSIVE FindAllWords(_, _, _, _, _)
FindAllWords(s, i, inWord, cur, acc) ==
    IF i > Len(s) THEN (IF inWord THEN Append(acc, cur) ELSE acc)
    ELSE IF IsUpper(s[i])
         THEN FindAllWords(s, i + 1, TRUE, <<s[i]>>,
                           IF inWord THEN Append(acc, cur) ELSE acc)
    ELSE IF inWord THEN FindAllWords(s, i + 1, TRUE, Append(cur, s[i]), acc)
    ELSE FindAllWords(s, i + 1, FALSE, cur, acc)

\* fieldNameToEnvName with the words joined as they are written.
fieldNameToEnvName_AsWritten(field) ==
    LET allWords == FindAllWords(field, 1, FALSE, <<>>, <<>>)
        namedArray == << <<"T","A","N","Z","U">> >> \o allWords
    IN JoinStr(namedArray, <<"_">>)

fieldNameToEnvName(field) ==
    LET allWords == FindAllWords(field, 1, FALSE, <<>>, <<>>)
        namedArray == << <<"T","A","N","Z","U">> >>
                        \o [i \in 1..Len(allWords) |-> ToUpper(allWords[i])]
    IN JoinStr(namedArray, <<"_">>)

\* fieldNameToEnvName of the yaml names of the struct, computed once.
EnvNameTable ==
    [y \in { StructFields[i].yaml : i \in 1..NumField } |-> fieldNameToEnvName(y)]
EnvNameOf(fieldName) ==
    IF fieldName \in DOMAIN EnvNameTable THEN EnvNameTable[fieldName]
    ELSE fieldNameToEnvName(fieldName)

\* strconv.ParseBool
ParseBool(str) ==
    IF str \in { <<"1">>, <<"t">>, <<"T">>, <<"T","R","U","E">>,
                 <<"t","r","u","e">>, <<"T","r","u","e">> }
    THEN [val |-> TRUE, err |-> FALSE]
    ELSE IF str \in { <<"0">>, <<"f">>, <<"F">>, <<"F","A","L","S","E">>,
                      <<"f","a","l","s","e">>, <<"F","a","l","s","e">> }
    THEN [val |-> FALSE, err |-> FALSE]
    ELSE [val |-> FALSE, err |-> TRUE]

\* filepath.Clean on a "/"-separated path.
RECURSIVE CleanParts(_, _, _)
CleanParts(parts, rooted, out) ==
    IF Len(parts) = 0 THEN out
    ELSE LET p == parts[1]
             rest == Tail(parts)
         IN IF p = <<>> \/ p = <<".">> THEN CleanParts(rest, rooted, out)
            ELSE IF p = <<".", ".">>
                 THEN IF Len(out) > 0 /\ out[Len(out)] # <<".", ".">>
                      THEN CleanParts(rest, rooted, SubSeq(out, 1, Len(out) - 1))
                      ELSE IF rooted THEN CleanParts(rest, rooted, out)
                      ELSE CleanParts(rest, rooted, Append(out, p))
            ELSE CleanParts(rest, rooted, Append(out, p))
Clean(path) ==
    IF path = <<>> THEN <<".">>
    ELSE LET rooted == path[1] = "/"
             body == JoinStr(CleanParts(Split(path, "/"), rooted, <<>>), <<"/">>)
         IN IF rooted THEN <<"/">> \o body
            ELSE IF body = <<>> THEN <<".">> ELSE body

\* filepath.Join of two elements: empty elements are ignored, the rest is
\* joined by "/" and cleaned; all elements empty gives the empty string.
FilepathJoin(a, b) ==
    IF a = <<>> /\ b = <<>> THEN <<>>
    ELSE IF a = <<>> THEN Clean(b)
    ELSE IF b = <<>> THEN Clean(a)
    ELSE Clean(a \o <<"/">> \o b)

\* usr.HomeDir of user.Current()
HomeDir == <<"/","h">>

\* sanatizeKubeconfigPath that leaves "~/" where it is.
sanatizeKubeconfigPath_NoExpand(path) == FilepathJoin(<<>>, path)

sanatizeKubeconfigPath(path) ==
    LET tilde == HasPrefix(path, <<"~","/">>)
        builder == IF tilde THEN FilepathJoin(<<>>, HomeDir) ELSE <<>>
        rest == IF tilde THEN SubSeq(path, 3, Len(path)) ELSE path
    IN FilepathJoin(builder, rest)

\* usr, _ := user.Current(): the user, or nil when the lookup fails (the
\* error is dropped).
UserCurrentResults == {"user", "nil"}

\* usr.HomeDir is read only for a path that starts with "~/"; on a nil usr
\* the read panics.
sanatizePanics(path, usr) == HasPrefix(path, <<"~","/">>) /\ usr = "nil"

\* reflect.Append(oldSlice, reflect.ValueOf(v)): v has to be assignable to
\* the element type of the slice, otherwise the call panics.
ReflectAppend(oldSlice, elemType, v, vType) ==
    IF vType = elemType
    THEN [panic |-> FALSE, slice |-> Append(oldSlice, v)]
    ELSE [panic |-> TRUE, slice |-> oldSlice]

\* The loop "for _, val := range slice { ... reflect.Append(field, val) ... }"
\* over a slice whose elements have the field's element type.
AppendAll(oldSlice, vals) == oldSlice \o vals

----------------------------------------------------------------------------
(* Field setters: each gives the struct after the call and whether the     *)
(* call panicked.                                                          *)

Set(cfg, name, v) == [panic |-> FALSE, cfg |-> [cfg EXCEPT ![name] = v]]

\* setBoolValue that leaves the field alone when the environment value is no
\* boolean.
setBoolValue_KeepOnError(args, e, cfg, field) ==
    LET fieldName == field.yaml
        envValue == Getenv(e, EnvNameOf(fieldName))
    IN IF fieldName \in DOMAIN args
       THEN Set(cfg, field.name, args[fieldName])
       ELSE IF envValue # <<>>
       THEN IF ParseBool(envValue).err THEN [panic |-> FALSE, cfg |-> cfg]
            ELSE Set(cfg, field.name, ParseBool(envValue).val)
       ELSE IF fieldName \in DOMAIN defaultConfigValues
       THEN [panic |-> TRUE, cfg |-> cfg]
       ELSE [panic |-> FALSE, cfg |-> cfg]

\* setBoolValue that asks the environment before the explicit argument.
setBoolValue_EnvFirst(args, e, cfg, field) ==
    LET fieldName == field.yaml
        envValue == Getenv(e, EnvNameOf(fieldName))
    IN IF envValue # <<>>
       THEN Set(cfg, field.name, ParseBool(envValue).val)
       ELSE IF fieldName \in DOMAIN args
       THEN Set(cfg, field.name, args[fieldName])
       ELSE IF fieldName \in DOMAIN defaultConfigValues
       THEN [panic |-> TRUE, cfg |-> cfg]
       ELSE [panic |-> FALSE, cfg |-> cfg]

setBoolValue(args, e, cfg, field) ==
    LET fieldName == field.yaml
        envValue == Getenv(e, EnvNameOf(fieldName))
    IN IF fieldName \in DOMAIN args
       THEN Set(cfg, field.name, args[fieldName])
       ELSE IF envValue # <<>>
       THEN Set(cfg, field.name, ParseBool(envValue).val)
       ELSE IF fieldName \in DOMAIN defaultConfigValues
       THEN \* value.(bool) on a default: the table holds strings only
            [panic |-> TRUE, cfg |-> cfg]
       ELSE [panic |-> FALSE, cfg |-> cfg]

\* StringDefault that applies a registered default whether or not the field is
\* empty.
StringDefault_Always(cfg, field) ==
    IF field.yaml \in DOMAIN defaultConfigValues
    THEN [cfg EXCEPT ![field.name] = defaultConfigValues[field.yaml]]
    ELSE cfg

\* StringDefault that applies no default.
StringDefault_Never(cfg, field) == cfg

\* The "only set to the default value if it hasn't been set already" step of
\* setStringValue.
StringDefault(cfg, field) ==
    IF cfg[field.name] = <<>> /\ field.yaml \in DOMAIN defaultConfigValues
    THEN [cfg EXCEPT ![field.name] = defaultConfigValues[field.yaml]]
    ELSE cfg

\* setStringValue that asks the environment before the explicit argument.
setStringValue_EnvFirst(args, e, cfg, field) ==
    LET fieldName == field.yaml
        envValue == Getenv(e, EnvNameOf(fieldName))
        layered ==
            IF envValue # <<>>
            THEN [cfg EXCEPT ![field.name] = envValue]
            ELSE IF fieldName \in DOMAIN args /\ args[fieldName] # <<>>
            THEN [cfg EXCEPT ![field.name] = args[fieldName]]
            ELSE cfg
    IN [panic |-> FALSE, cfg |-> StringDefault(layered, field)]

setStringValue(args, e, cfg, field) ==
    LET fieldName == field.yaml
        envValue == Getenv(e, EnvNameOf(fieldName))
        layered ==
            IF fieldName \in DOMAIN args /\ args[fieldName] # <<>>
            THEN [cfg EXCEPT ![field.name] = args[fieldName]]
            ELSE IF envValue # <<>>
            THEN [cfg EXCEPT ![field.name] = envValue]
            ELSE cfg
    IN [panic |-> FALSE, cfg |-> StringDefault(layered, field)]

\* The default step of the three slice setters: no slice field has an entry
\* in defaultConfigValues, an entry of another type would fail the type
\* assertion slice.([]T).
SliceDefault(res, field) ==
    IF ~res.panic /\ Len(res.cfg[field.name]) = 0
       /\ field.yaml \in DOMAIN defaultConfigValues
    THEN [panic |-> TRUE, cfg |-> res.cfg]
    ELSE res

setStringSliceValue(args, e, cfg, field) ==
    LET fieldName == field.yaml
        envValue == Getenv(e, EnvNameOf(fieldName))
        layered ==
            IF fieldName \in DOMAIN args /\ Len(args[fieldName]) # 0
            THEN Set(cfg, field.name, AppendAll(cfg[field.name], args[fieldName]))
            ELSE IF envValue # <<>>
            THEN Set(cfg, field.name,
                     AppendAll(cfg[field.name], Split(envValue, ",")))
            ELSE [panic |-> FALSE, cfg |-> cfg]
    IN SliceDefault(layered, field)

----------------------------------------------------------------------------
(* ParseInstallPackageMappings                                             *)

\* InstallPackage{}
ZeroInstallPackage ==
    [Name |-> <<>>, Config |-> <<>>, Version |-> <<>>, Namespace |-> <<>>]

\* ParseInstallPackage with the third part read as the version and the second
\* as the config.
ParseInstallPackage_ConfigSecond(installPackage) ==
    LET parts == Split(installPackage, ":")
        n == Len(parts)
        ip == ZeroInstallPackage
    IN CASE n = 0 -> [err |-> "no parts", ip |-> ip]
         [] n = 1 -> [err |-> "nil", ip |-> [ip EXCEPT !.Name = parts[1]]]
         [] n = 2 -> [err |-> "nil",
                      ip |-> [ip EXCEPT !.Name = parts[1], !.Version = parts[2]]]
         [] n = 3 -> [err |-> "nil",
                      ip |-> [ip EXCEPT !.Name = parts[1], !.Version = parts[3],
                                        !.Config = parts[2]]]
         [] n = 4 -> [err |-> "nil",
                      ip |-> [ip EXCEPT !.Name = parts[1], !.Version = parts[3],
                                        !.Config = parts[2], !.Namespace = parts[4]]]
         [] OTHER -> [err |-> "too many parts", ip |-> ip]

\* The switch on the number of ":"-separated parts of one mapping.
ParseInstallPackage(installPackage) ==
    LET parts == Split(installPackage, ":")
        n == Len(parts)
        ip == ZeroInstallPackage
    IN CASE n = 0 -> [err |-> "no parts", ip |-> ip]
         [] n = 1 -> [err |-> "nil", ip |-> [ip EXCEPT !.Name = parts[1]]]
         [] n = 2 -> [err |-> "nil",
                      ip |-> [ip EXCEPT !.Name = parts[1], !.Version = parts[2]]]
         [] n = 3 -> [err |-> "nil",
                      ip |-> [ip EXCEPT !.Name = parts[1], !.Version = parts[2],
                                        !.Config = parts[3]]]
         [] n = 4 -> [err |-> "nil",
                      ip |-> [ip EXCEPT !.Name = parts[1], !.Version = parts[2],
                                        !.Config = parts[3], !.Namespace = parts[4]]]
         [] OTHER -> [err |-> "too many parts", ip |-> ip]

\* The inner loop: the mappings of one input string, split on ",".
RECURSIVE ParseInstallPackagesOf(_, _)
ParseInstallPackagesOf(installPackages, result) ==
    IF Len(installPackages) = 0 THEN [result |-> result, err |-> "nil"]
    ELSE LET one == ParseInstallPackage(installPackages[1])
         IN IF one.err # "nil" THEN [result |-> <<>>, err |-> one.err]
            ELSE ParseInstallPackagesOf(Tail(installPackages), Append(result, one.ip))

\* The outer loop over the input strings.
RECURSIVE ParseInstallPackageMappingsFrom(_, _)
ParseInstallPackageMappingsFrom(installPackageMaps, result) ==
    IF Len(installPackageMaps) = 0 THEN [result |-> result, err |-> "nil"]
    ELSE LET inner == ParseInstallPackagesOf(Split(installPackageMaps[1], ","), result)
         IN IF inner.err # "nil" THEN inner
            ELSE ParseInstallPackageMappingsFrom(Tail(installPackageMaps), inner.result)
ParseInstallPackageMappings(installPackageMaps) ==
    ParseInstallPackageMappingsFrom(installPackageMaps, <<>>)

----------------------------------------------------------------------------
(* Field setters of the record slices, the field loop                      *)

\* The struct after reflect.Append and Set on the field, or the panic.
SetAppended(cfg, field, app) ==
    [panic |-> app.panic, cfg |-> [cfg EXCEPT ![field.name] = app.slice]]

\* The explicit argument and the environment layer of setPortMapSliceValue.
PortMapLayers(args, cfg, field, envValue) ==
    IF field.yaml \in DOMAIN args /\ Len(args[field.yaml]) # 0
    THEN Set(cfg, field.name, AppendAll(cfg[field.name], args[field.yaml]))
    ELSE IF envValue # <<>>
    THEN \* portMappings, _ := ParsePortMappings([]string{value})
         SetAppended(cfg, field,
                     ReflectAppend(cfg[field.name], "PortMap",
                                   ParsePortMappings(<<envValue>>).mappings, "[]PortMap"))
    ELSE [panic |-> FALSE, cfg |-> cfg]

setPortMapSliceValue(args, e, cfg, field) ==
    SliceDefault(PortMapLayers(args, cfg, field, Getenv(e, EnvNameOf(field.yaml))), field)

\* The explicit argument and the environment layer of
\* setInstallPackageSliceValue.
InstallPackageLayers(args, cfg, field, envValue) ==
    IF field.yaml \in DOMAIN args /\ Len(args[field.yaml]) # 0
    THEN Set(cfg, field.name, AppendAll(cfg[field.name], args[field.yaml]))
    ELSE IF envValue # <<>>
    THEN \* installPackages, _ := ParseInstallPackageMappings([]string{value})
         SetAppended(cfg, field,
                     ReflectAppend(cfg[field.name], "InstallPackage",
                                   ParseInstallPackageMappings(<<envValue>>).result,
                                   "[]InstallPackage"))
    ELSE [panic |-> FALSE, cfg |-> cfg]

setInstallPackageSliceValue(args, e, cfg, field) ==
    SliceDefault(InstallPackageLayers(args, cfg, field, Getenv(e, EnvNameOf(field.yaml))),
                 field)

\* SetField with a case for map fields that takes the explicit argument.
SetField_MapFromArgs(args, e, cfg, field) ==
    CASE field.type = "bool" -> setBoolValue(args, e, cfg, field)
      [] field.type = "string" -> setStringValue(args, e, cfg, field)
      [] field.type = "[]string" -> setStringSliceValue(args, e, cfg, field)
      [] field.type = "[]InstallPackage" -> setInstallPackageSliceValue(args, e, cfg, field)
      [] field.type = "[]PortMap" -> setPortMapSliceValue(args, e, cfg, field)
      [] field.type = "map" /\ field.yaml \in DOMAIN args -> Set(cfg, field.name, args[field.yaml])
      [] OTHER -> [panic |-> FALSE, cfg |-> cfg]

\* The switch of the field loop: the setter of the field's type, nothing for
\* a field of any other type.
SetField(args, e, cfg, field) ==
    CASE field.type = "bool" -> setBoolValue(args, e, cfg, field)
      [] field.type = "string" -> setStringValue(args, e, cfg, field)
      [] field.type = "[]string" -> setStringSliceValue(args, e, cfg, field)
      [] field.type = "[]InstallPackage" -> setInstallPackageSliceValue(args, e, cfg, field)
      [] field.type = "[]PortMap" -> setPortMapSliceValue(args, e, cfg, field)
      [] OTHER -> [panic |-> FALSE, cfg |-> cfg]

\* for i := 0; i < element.NumField(); i++ { ... }: the fields in declaration
\* order; a panic ends the loop with the struct as it then is.
RECURSIVE FieldLoop(_, _, _, _)
LoopOn(args, e, r, i) == IF r.panic THEN r ELSE FieldLoop(args, e, r.cfg, i + 1)
FieldLoop(args, e, cfg, i) ==
    IF i > NumField THEN [panic |-> FALSE, cfg |-> cfg]
    ELSE LoopOn(args, e, SetField(args, e, cfg, StructFields[i]), i)

----------------------------------------------------------------------------
(* InitializeConfiguration                                                 *)

NoReturn == [returned |-> FALSE, nil |-> TRUE, config |-> ZeroConfig, err |-> "nil"]
\* return config, err: the struct handed out together with the error.
ReturnErr_WithConfig(e) ==
    [returned |-> TRUE, nil |-> FALSE, config |-> ZeroConfig, err |-> e]

ReturnErr(e) == [returned |-> TRUE, nil |-> TRUE, config |-> ZeroConfig, err |-> e]
ReturnConfig(c) == [returned |-> TRUE, nil |-> FALSE, config |-> c, err |-> "nil"]

\* configFile, ok := commandArgs[ClusterConfigFile].(string); ok && configFile != ""
ConfigFileGiven(args) ==
    ClusterConfigFile \in DOMAIN args /\ args[ClusterConfigFile] # <<>>

\* ReadConfigFile that goes on with the zero struct when the file cannot be
\* read or decoded.
ReadConfigFile_Lenient ==
    /\ pc = "start"
    /\ config' = IF ConfigFileGiven(commandArgs) /\ fsFile.state = "ok"
                 THEN fsFile.decoded ELSE ZeroConfig
    /\ pc' = "fields"
    /\ UNCHANGED <<commandArgs, env, fsFile, ret>>
    /\ UNCHANGED notCfgVars

\* Lines 213-227: the zero struct, then the config file read and decoded onto
\* it. A file that cannot be read or decoded ends the call with nil and the
\* error.
ReadConfigFile ==
    /\ pc = "start"
    /\ IF ConfigFileGiven(commandArgs)
       THEN CASE fsFile.state = "missing" ->
                   /\ ret' = ReturnErr("read")
                   /\ pc' = "done"
                   /\ config' = ZeroConfig
              [] fsFile.state = "malformed" ->
                   /\ ret' = ReturnErr("yaml")
                   /\ pc' = "done"
                   /\ config' = ZeroConfig
              [] OTHER ->
                   /\ config' = fsFile.decoded
                   /\ pc' = "fields"
                   /\ ret' = ret
       ELSE /\ config' = ZeroConfig
            /\ pc' = "fields"
            /\ ret' = ret
    /\ UNCHANGED <<commandArgs, env, fsFile>>
    /\ UNCHANGED notCfgVars

\* Lines 229-250: the field loop.
SetFields ==
    /\ pc = "fields"
    /\ LET r == FieldLoop(commandArgs, env, config, 1)
       IN /\ config' = r.cfg
          /\ pc' = IF r.panic THEN "panic" ELSE "check"
    /\ UNCHANGED <<commandArgs, env, fsFile, ret>>
    /\ UNCHANGED notCfgVars

\* Lines 252-261: the cluster name check, the kubeconfig path, the return.
CheckAndReturn ==
    /\ pc = "check"
    /\ IF config.ClusterName = <<>>
       THEN /\ ret' = ReturnErr("cluster name must be provided")
            /\ config' = config
            /\ pc' = "done"
       ELSE \E usr \in UserCurrentResults :
              IF sanatizePanics(config.ExistingClusterKubeconfig, usr)
              THEN /\ pc' = "panic"
                   /\ UNCHANGED <<config, ret>>
              ELSE /\ config' = [config EXCEPT !.ExistingClusterKubeconfig =
                                     sanatizeKubeconfigPath(config.ExistingClusterKubeconfig)]
                   /\ ret' = ReturnConfig(config')
                   /\ pc' = "done"
    /\ UNCHANGED <<commandArgs, env, fsFile>>
    /\ UNCHANGED notCfgVars

----------------------------------------------------------------------------
(* The calls of InitializeConfiguration that are explored                  *)

\* The environment variable a user sets for each field, in declaration order
\* of the fields (TANZU_CLUSTER_NAME, TANZU_KUBECONFIG_PATH, ...).
UserEnvNames ==
    << <<"T","A","N","Z","U","_","C","L","U","S","T","E","R","_","N","A","M","E">>,
       <<"T","A","N","Z","U","_","K","U","B","E","C","O","N","F","I","G","_","P","A","T","H">>,
       <<"T","A","N","Z","U","_","E","X","I","S","T","I","N","G","_","C","L","U","S","T","E","R","_","K","U","B","E","C","O","N","F","I","G">>,
       <<"T","A","N","Z","U","_","N","O","D","E","_","I","M","A","G","E">>,
       <<"T","A","N","Z","U","_","P","R","O","V","I","D","E","R">>,
       <<"T","A","N","Z","U","_","P","R","O","V","I","D","E","R","_","C","O","N","F","I","G","U","R","A","T","I","O","N">>,
       <<"T","A","N","Z","U","_","C","N","I">>,
       <<"T","A","N","Z","U","_","C","N","I","_","C","O","N","F","I","G","U","R","A","T","I","O","N">>,
       <<"T","A","N","Z","U","_","P","O","D","_","C","I","D","R">>,
       <<"T","A","N","Z","U","_","S","E","R","V","I","C","E","_","C","I","D","R">>,
       <<"T","A","N","Z","U","_","T","K","R","_","L","O","C","A","T","I","O","N">>,
       <<"T","A","N","Z","U","_","A","D","D","I","T","I","O","N","A","L","_","P","A","C","K","A","G","E","_","R","E","P","O","S">>,
       <<"T","A","N","Z","U","_","P","O","R","T","S","_","T","O","_","F","O","R","W","A","R","D">>,
       <<"T","A","N","Z","U","_","S","K","I","P","_","P","R","E","F","L","I","G","H","T","_","C","H","E","C","K","S">>,
       <<"T","A","N","Z","U","_","C","O","N","T","R","O","L","_","P","L","A","N","E","_","N","O","D","E","_","C","O","U","N","T">>,
       <<"T","A","N","Z","U","_","W","O","R","K","E","R","_","N","O","D","E","_","C","O","U","N","T">>,
       <<"T","A","N","Z","U","_","I","N","S","T","A","L","L","_","P","A","C","K","A","G","E","S">>,
       <<"T","A","N","Z","U","_","L","O","G","_","F","I","L","E">> >>

PortMap80 == [ListenAddress |-> <<>>, HostPort |-> 0, ContainerPort |-> 80, Protocol |-> <<>>]
PortMap443 == [ListenAddress |-> <<>>, HostPort |-> 8443, ContainerPort |-> 443,
               Protocol |-> <<"t","c","p">>]
PackageP == [Name |-> <<"p">>, Config |-> <<>>, Version |-> <<"1">>, Namespace |-> <<>>]
PackageQ == [Name |-> <<"q">>, Config |-> <<>>, Version |-> <<>>, Namespace |-> <<>>]
MapArg == [nil |-> FALSE, keys |-> {"fromArgs"}]
MapFile == [nil |-> FALSE, keys |-> {"fromFile"}]

\* What the three sources can hold for one field of a type: the explicit
\* argument (hasArg: the key is in commandArgs), the environment variable
\* (empty: not set) and the value decoded from the config file.
ArgChoices(type) ==
    CASE type = "string" -> { <<>>, <<"a">>, <<"~","/","a">>, <<"b","/">> }
      [] type = "bool" -> { TRUE, FALSE }
      [] type = "[]string" -> { <<>>, << <<"a">> >>, << <<"a">>, <<"d">> >> }
      [] type = "[]PortMap" -> { <<>>, <<PortMap80>> }
      [] type = "[]InstallPackage" -> { <<>>, <<PackageP>> }
      [] OTHER -> { MapArg }
EnvChoices(type) ==
    CASE type = "string" -> { <<>>, <<"e">>, <<"~","/","e">> }
      [] type = "bool" -> { <<>>, <<"t","r","u","e">>, <<"0">>, <<"T">>, <<"y","e","s">> }
      [] type = "[]string" -> { <<>>, <<"e">>, <<"e",",","g">> }
      [] type = "[]PortMap" -> { <<>>, <<"8","0">>, <<"8","0",":","8","1","/","t","c","p">>,
                                 <<"x",":","y">> }
      [] type = "[]InstallPackage" -> { <<>>, <<"p",":","1">>, <<"a",":","b",":","c",":","d",":","e">> }
      [] OTHER -> { <<>>, <<"e">> }
FileChoices(type) ==
    CASE type = "string" -> { <<>>, <<"f">>, <<"~","/","f">> }
      [] type = "bool" -> { FALSE, TRUE }
      [] type = "[]string" -> { <<>>, << <<"b">>, <<"c">> >> }
      [] type = "[]PortMap" -> { <<>>, <<PortMap443>> }
      [] type = "[]InstallPackage" -> { <<>>, <<PackageQ>> }
      [] OTHER -> { NilMap, MapFile }

FieldInputs(type, withFile) ==
    { [hasArg |-> h, arg |-> a, env |-> ev, file |-> fv] :
        h \in BOOLEAN, a \in ArgChoices(type), ev \in EnvChoices(type),
        fv \in IF withFile THEN FileChoices(type) ELSE { ZeroOf(type) } }

\* The inputs that differ only in the value of an argument that is not passed
\* are the same call: one of them is kept.
CallInputs(type, withFile) ==
    { in \in FieldInputs(type, withFile) :
        in.hasArg \/ in.arg = (CHOOSE a \in ArgChoices(type) : TRUE) }

\* The cluster name comes from the same three sources.
ClusterNameInputs(withFile) ==
    { [hasArg |-> h, arg |-> a, env |-> ev, file |-> fv] :
        h \in BOOLEAN, a \in { <<>>, <<"x">> }, ev \in { <<>>, <<"y">> },
        fv \in IF withFile THEN { <<>>, <<"z">> } ELSE { <<>> } }

\* The ClusterConfigFile argument: not passed, empty, or the path of fsFile.
ConfigFileArgs ==
    { [hasArg |-> FALSE, arg |-> <<>>], [hasArg |-> TRUE, arg |-> <<>>],
      [hasArg |-> TRUE, arg |-> <<"p">>] }

ArgEntry(key, in) == IF in.hasArg THEN key :> in.arg ELSE <<>>
EnvEntry(name, in) == IF in.env # <<>> THEN name :> in.env ELSE <<>>

PmIdle ==
    /\ pmShape = <<>>
    /\ portMappings = <<>>
    /\ pmPc = "idle"
    /\ pmRet = <<>>

\* A call of InitializeConfiguration: the cluster name and one more field of
\* the struct take their values from any combination of the sources, all
\* other fields are set nowhere.
Init ==
    /\ \E cf \in ConfigFileArgs, st \in {"missing", "malformed", "ok"} :
       \E cn \in ClusterNameInputs(st = "ok"), i \in 2..NumField :
       \E in \in CallInputs(StructFields[i].type, st = "ok") :
          /\ (cn.hasArg \/ cn.arg = <<>>)
          /\ commandArgs = ArgEntry(ClusterConfigFile, cf)
                             @@ ArgEntry(StructFields[1].yaml, cn)
                             @@ ArgEntry(StructFields[i].yaml, in)
          /\ env = EnvEntry(UserEnvNames[1], cn) @@ EnvEntry(UserEnvNames[i], in)
          /\ fsFile = [state |-> st,
                       decoded |-> [ZeroConfig EXCEPT ![StructFields[1].name] = cn.file,
                                                      ![StructFields[i].name] = in.file]]
    /\ config = ZeroConfig
    /\ pc = "start"
    /\ ret = NoReturn
    /\ PmIdle
    /\ IpIdle
    /\ RenderIdle
    /\ EnIdle
    /\ GdIdle
    /\ CmdIdle

Next == ReadConfigFile \/ SetFields \/ CheckAndReturn

Spec == Init /\ [][Next]_vars

----------------------------------------------------------------------------
(* Properties of InitializeConfiguration                                   *)

StringFields == { i \in 1..NumField : StructFields[i].type = "string" }
IdxOf(name) == CHOOSE i \in 1..NumField : StructFields[i].name = name

\* What the call was given for field i.
HasArg(i) == StructFields[i].yaml \in DOMAIN commandArgs
ArgOf(i) == commandArgs[StructFields[i].yaml]
EnvOf(i) == IF UserEnvNames[i] \in DOMAIN env THEN env[UserEnvNames[i]] ELSE <<>>
FileRead == ConfigFileGiven(commandArgs)
FileFails == FileRead /\ fsFile.state # "ok"
FileOf(i) ==
    IF FileRead /\ fsFile.state = "ok" THEN fsFile.decoded[StructFields[i].name]
    ELSE ZeroOf(StructFields[i].type)
NonEmptyStringArg(i) == HasArg(i) /\ ArgOf(i) # <<>>

Returned == pc = "done" /\ ret.returned
Succeeded == Returned /\ ret.err = "nil" /\ ~ret.nil
FieldsSet == pc = "check"        \* the field loop is over, nothing returned yet

\* The kubeconfig paths of the explored calls with "~/" replaced by the home
\* directory "/h" and the path cleaned.
ExpandedPath ==
    (<<>> :> <<>>)
    @@ (<<"a">> :> <<"a">>) @@ (<<"~","/","a">> :> <<"/","h","/","a">>)
    @@ (<<"b","/">> :> <<"b">>)
    @@ (<<"e">> :> <<"e">>) @@ (<<"~","/","e">> :> <<"/","h","/","e">>)
    @@ (<<"f">> :> <<"f">>) @@ (<<"~","/","f">> :> <<"/","h","/","f">>)

\* The value a returned configuration holds where the field loop left v.
ReturnedFor(i, v) ==
    IF StructFields[i].name = "ExistingClusterKubeconfig" THEN ExpandedPath[v] ELSE v

\* C1 as stated: in every call that returns a configuration, every string
\* field whose explicit argument is a non-empty string holds exactly that
\* string, whatever the environment, the file and the default are.
C1_ArgWinsExactly ==
    Succeeded =>
      \A i \in StringFields :
        NonEmptyStringArg(i) => ret.config[StructFields[i].name] = ArgOf(i)

\* C1 amended: in every call that returns a configuration, every string field
\* whose explicit argument is a non-empty string holds that string after the
\* field loop, whatever the environment, the file and the default are, and in
\* the returned configuration; only ExistingClusterKubeconfig is returned as
\* that string with a leading "~/" replaced by the home directory and the path
\* cleaned.
C1_ArgWins ==
    \A i \in StringFields :
      NonEmptyStringArg(i) =>
        /\ FieldsSet => config[StructFields[i].name] = ArgOf(i)
        /\ Succeeded => ret.config[StructFields[i].name] = ReturnedFor(i, ArgOf(i))

\* Provider passed as "a" while TANZU_PROVIDER is "~/e", the file says "f" and
\* the default is "kind": the call returns Provider "a".
C1_Witness ==
    /\ Succeeded
    /\ HasArg(IdxOf("Provider")) /\ ArgOf(IdxOf("Provider")) = <<"a">>
    /\ EnvOf(IdxOf("Provider")) = <<"~","/","e">>
    /\ FileOf(IdxOf("Provider")) = <<"f">>
    /\ ret.config.Provider = <<"a">>

\* The value the layers below the explicit argument give a string field.
BelowArg(i) ==
    IF EnvOf(i) # <<>> THEN EnvOf(i)
    ELSE IF FileOf(i) # <<>> THEN FileOf(i)
    ELSE IF StructFields[i].yaml \in DOMAIN defaultConfigValues
         THEN defaultConfigValues[StructFields[i].yaml]
    ELSE <<>>

\* C2 as stated: in every call that returns a configuration, a string field
\* with no or an empty explicit argument holds the environment value if that
\* is non-empty, else the file value if that is non-empty, else the registered
\* default, else the empty string.
C2_LayersExactly ==
    Succeeded =>
      \A i \in StringFields :
        ~NonEmptyStringArg(i) => ret.config[StructFields[i].name] = BelowArg(i)

\* C2 amended: a string field with no or an empty explicit argument holds,
\* after the field loop, the environment value if that is non-empty, else the
\* file value if that is non-empty, else the registered default, else the
\* empty string; the returned configuration holds the same value, except that
\* ExistingClusterKubeconfig is returned with a leading "~/" replaced by the
\* home directory and the path cleaned.
C2_Layers ==
    \A i \in StringFields :
      ~NonEmptyStringArg(i) =>
        /\ FieldsSet => config[StructFields[i].name] = BelowArg(i)
        /\ Succeeded => ret.config[StructFields[i].name] = ReturnedFor(i, BelowArg(i))

\* Cni with an empty explicit argument, no environment value and no file
\* value is returned as the default "calico"; LogFile, which has no default
\* and no source, is returned empty.
C2_Witness ==
    /\ Succeeded
    /\ HasArg(IdxOf("Cni")) /\ ArgOf(IdxOf("Cni")) = <<>>
    /\ EnvOf(IdxOf("Cni")) = <<>> /\ FileOf(IdxOf("Cni")) = <<>>
    /\ ret.config.Cni = <<"c","a","l","i","c","o">>
    /\ ret.config.LogFile = <<>>

ClusterNameIdx == IdxOf("ClusterName")

\* The cluster name is empty in the explicit argument, in TANZU_CLUSTER_NAME
\* and in the config file.
NoClusterName ==
    /\ ~NonEmptyStringArg(ClusterNameIdx)
    /\ EnvOf(ClusterNameIdx) = <<>>
    /\ FileOf(ClusterNameIdx) = <<>>

\* C3: in every call that returns and whose config file, if one is given, is
\* read and decoded, an error is returned exactly when the cluster name is
\* empty in the explicit argument, in TANZU_CLUSTER_NAME and in the file (no
\* default supplies one); and a call that succeeds with the explicit argument
\* ClusterName = x returns the cluster name x.
C3_ClusterNameRequired ==
    (Returned /\ ~FileFails) =>
      /\ (ret.err # "nil") <=> NoClusterName
      /\ NoClusterName => ret.err = "cluster name must be provided"
      /\ (ret.err = "nil" /\ NonEmptyStringArg(ClusterNameIdx))
            => ret.config.ClusterName = ArgOf(ClusterNameIdx)

\* Without a cluster name anywhere the call returns the cluster name error,
\* although the field loop filled Provider with its default.
C3_Witness ==
    /\ Returned /\ ~FileFails /\ NoClusterName
    /\ ~HasArg(ClusterNameIdx)
    /\ ret.err = "cluster name must be provided"
    /\ config.ClusterName = <<>>
    /\ config.Provider = <<"k","i","n","d">>

\* C4: whenever InitializeConfiguration has returned, an error comes with a
\* nil configuration (after an unreadable file, after malformed YAML and after
\* the cluster name check alike), and a nil error comes with a non-nil
\* configuration whose ClusterName is not empty.
C4_ConfigOrError ==
    pc = "done" =>
      /\ ret.returned
      /\ ret.err # "nil" => ret.nil
      /\ ret.err = "nil" => (~ret.nil /\ ret.config.ClusterName # <<>>)
      /\ FileFails => ret.err \in {"read", "yaml"}

\* The cluster name error returned with a nil configuration after the field
\* loop had already filled fields of the struct from the file and the
\* environment.
C4_Witness ==
    /\ pc = "done" /\ ret.err = "cluster name must be provided" /\ ret.nil
    /\ config.NodeImage = <<"e">>
    /\ FileOf(IdxOf("NodeImage")) = <<"f">>

ReposIdx == IdxOf("AdditionalPackageRepos")

\* C5: in every call that returns a configuration, when commandArgs carries a
\* non-empty AdditionalPackageRepos sequence and the config file supplied a
\* non-empty one, the returned field is exactly the commandArgs sequence.
C5_ArgSequenceReplacesFile ==
    (Succeeded /\ HasArg(ReposIdx) /\ Len(ArgOf(ReposIdx)) # 0
       /\ Len(FileOf(ReposIdx)) # 0)
      => ret.config.AdditionalPackageRepos = ArgOf(ReposIdx)

\* The environment values of AdditionalPackageRepos split on ",".
SplitOnComma ==
    (<<"e">> :> << <<"e">> >>) @@ (<<"e",",","g">> :> << <<"e">>, <<"g">> >>)

\* C6: in every call that returns a configuration, with no or an empty
\* explicit AdditionalPackageRepos sequence and a non-empty environment value,
\* the returned field is exactly the environment value split on ",", whatever
\* sequence the config file supplied.
C6_EnvSequenceReplacesFile ==
    (Succeeded /\ (~HasArg(ReposIdx) \/ Len(ArgOf(ReposIdx)) = 0)
       /\ EnvOf(ReposIdx) # <<>>)
      => ret.config.AdditionalPackageRepos = SplitOnComma[EnvOf(ReposIdx)]

PortsIdx == IdxOf("PortsToForward")
PackagesIdx == IdxOf("InstallPackages")

\* Environment values that are no port mappings / no package mappings.
MalformedEnv(i) ==
    IF i = PortsIdx THEN EnvOf(i) = <<"x",":","y">>
    ELSE EnvOf(i) = <<"a",":","b",":","c",":","d",":","e">>

\* C7: for PortsToForward and InstallPackages, with no explicit argument and
\* a malformed mapping string in the environment variable, the field loop
\* runs to its end without aborting and the field keeps the value decoded
\* from the config file.
C7_SettersTotal ==
    \A i \in {PortsIdx, PackagesIdx} :
      (pc \in {"check", "panic", "done"} /\ ~FileFails /\ ~HasArg(i) /\ MalformedEnv(i))
        => /\ pc # "panic"
           /\ config[StructFields[i].name] = FileOf(i)

SkipIdx == IdxOf("SkipPreflightChecks")
ClusterNameSupplied == ~NoClusterName

\* C8: with no explicit SkipPreflightChecks argument and an environment value
\* that is no boolean, a call that returns fails only for the reasons it
\* fails without that value (config file, cluster name), and a returned
\* configuration has SkipPreflightChecks false, also when the config file
\* set it to true.
C8_BadBoolIsFalse ==
    (Returned /\ ~HasArg(SkipIdx) /\ EnvOf(SkipIdx) = <<"y","e","s">>) =>
      /\ (~FileFails /\ ClusterNameSupplied) => ret.err = "nil"
      /\ ret.err = "nil" => ret.config.SkipPreflightChecks = FALSE

\* TANZU_SKIP_PREFLIGHT_CHECKS = "yes" over a config file that sets the field
\* to true: the call succeeds with the field false.
C8_Witness ==
    /\ Succeeded
    /\ ~HasArg(SkipIdx) /\ EnvOf(SkipIdx) = <<"y","e","s">>
    /\ FileOf(SkipIdx) = TRUE
    /\ ret.config.SkipPreflightChecks = FALSE

----------------------------------------------------------------------------
(* The calls of ParseInstallPackageMappings that are explored              *)

MaxPkgParts == 5        \* most ":"-separated parts of one generated mapping
MaxPkgStrings == 2      \* most input strings in one call

\* Texts put between the ":" of a mapping.
PkgTokens == { <<"p">>, <<"1",".","2">>, <<>> }

\* A mapping is the sequence of its parts.
PkgMappingShapes == UNION { [1..n -> PkgTokens] : n \in 1..MaxPkgParts }

\* The mappings that follow the first one of a string: "q", "q:2", the empty
\* mapping and "a:b:c:d:e".
PkgTailMappings ==
    { << <<"q">> >>, << <<"q">>, <<"2">> >>, << <<>> >>,
      << <<"a">>, <<"b">>, <<"c">>, <<"d">>, <<"e">> >> }

\* An input string is the sequence of its mappings.
PkgFirstStrings ==
    { <<m>> \o rest :
        m \in PkgMappingShapes,
        rest \in { <<>> } \cup { <<t>> : t \in PkgTailMappings } }

\* The strings that follow the first one of a call: "q", "q:2,r" and "".
PkgTailStrings ==
    { << << <<"q">> >> >>,
      << << <<"q">>, <<"2">> >>, << <<"r">> >> >>,
      << << <<>> >> >> }

PkgBatchShapes ==
    { <<first>> \o rest :
        first \in PkgFirstStrings,
        rest \in UNION { [1..n -> PkgTailStrings] : n \in 0..(MaxPkgStrings - 1) } }

\* The command line text of an input string: the parts of a mapping joined
\* by ":", the mappings joined by ",".
PkgStringText(str) ==
    JoinStr([i \in 1..Len(str) |-> JoinStr(str[i], <<":">>)], <<",">>)

IpInit ==
    /\ CfgIdle
    /\ PmIdle
    /\ RenderIdle
    /\ EnIdle
    /\ GdIdle
    /\ CmdIdle
    /\ ipShape \in PkgBatchShapes
    /\ packageMappings = [i \in 1..Len(ipShape) |-> PkgStringText(ipShape[i])]
    /\ ipPc = "start"
    /\ ipRet = [result |-> <<>>, err |-> "nil"]

\* result, err := ParseInstallPackageMappings(installPackageMaps)
CallParseInstallPackageMappings ==
    /\ ipPc = "start"
    /\ ipRet' = ParseInstallPackageMappings(packageMappings)
    /\ ipPc' = "done"
    /\ UNCHANGED <<ipShape, packageMappings>>
    /\ UNCHANGED notIpVars

IpNext == CallParseInstallPackageMappings

SpecInstallPackage == IpInit /\ [][IpNext]_vars

----------------------------------------------------------------------------
(* Properties of ParseInstallPackageMappings                               *)

IpDone == ipPc = "done"

\* All mappings of the call in input order.
RECURSIVE FlatMappings(_)
FlatMappings(shape) ==
    IF Len(shape) = 0 THEN <<>> ELSE shape[1] \o FlatMappings(Tail(shape))

PartOr(m, i) == IF i <= Len(m) THEN m[i] ELSE <<>>

\* The record the positions of a mapping name.
ExpectedPackage(m) ==
    [Name |-> PartOr(m, 1), Version |-> PartOr(m, 2), Config |-> PartOr(m, 3),
     Namespace |-> PartOr(m, 4)]

\* C12: ParseInstallPackageMappings returns an error when a mapping of the
\* call has more than 4 ":"-separated parts; otherwise it returns no error and
\* one record per ","-separated mapping of all input strings in input order,
\* each with Name, Version, Config, Namespace set from parts 1, 2, 3, 4 of its
\* mapping and the fields beyond its last part empty.
C12_PackagePrefix ==
    IpDone =>
      LET flat == FlatMappings(ipShape)
      IN /\ (\E k \in 1..Len(flat) : Len(flat[k]) > 4) => ipRet.err # "nil"
         /\ (\A k \in 1..Len(flat) : Len(flat[k]) <= 4) => ipRet.err = "nil"
         /\ ipRet.err = "nil" =>
              ipRet.result = [k \in 1..Len(flat) |-> ExpectedPackage(flat[k])]

\* "p:1.2::p,q:2" and "q:2,r" give four records in input order, the first
\* with an empty Config between Version and Namespace.
C12_Witness ==
    /\ IpDone
    /\ packageMappings = << <<"p",":","1",".","2",":",":","p",",","q",":","2">>,
                            <<"q",":","2",",","r">> >>
    /\ ipRet.err = "nil"
    /\ ipRet.result =
         << [Name |-> <<"p">>, Version |-> <<"1",".","2">>, Config |-> <<>>,
             Namespace |-> <<"p">>],
            [Name |-> <<"q">>, Version |-> <<"2">>, Config |-> <<>>, Namespace |-> <<>>],
            [Name |-> <<"q">>, Version |-> <<"2">>, Config |-> <<>>, Namespace |-> <<>>],
            [Name |-> <<"r">>, Version |-> <<>>, Config |-> <<>>, Namespace |-> <<>>] >>

\* A mapping that is the empty text: an empty input string or an empty
\* segment between two ",".
EmptyMapping(m) == m = << <<>> >>

\* C13: ParseInstallPackageMappings returns an error when an input string is
\* empty or has an empty ","-separated segment, and returns no record with an
\* empty Name for such a call.
C13_EmptyMappingRejected ==
    IpDone =>
      LET flat == FlatMappings(ipShape)
      IN (\E k \in 1..Len(flat) : EmptyMapping(flat[k]))
           => /\ ipRet.err # "nil"
              /\ \A k \in 1..Len(ipRet.result) : ipRet.result[k].Name # <<>>

----------------------------------------------------------------------------
(* Properties of InitializeConfiguration: the kubeconfig path              *)

KubeIdx == IdxOf("ExistingClusterKubeconfig")

\* The value the layers give a string field.
ChosenString(i) == IF NonEmptyStringArg(i) THEN ArgOf(i) ELSE BelowArg(i)

\* C14: in every call that returns a configuration, an
\* ExistingClusterKubeconfig value that the explicit argument, the
\* environment or the config file supplied with a leading "~/" is returned
\* with "~/" replaced by the home directory and "/"; the returned path has no
\* leading "~/" and sanatizeKubeconfigPath applied to it gives it back; the
\* struct still holds the value as supplied when the cluster name is checked;
\* and an empty value is returned empty.
C14_TildeExpandedOnce ==
    /\ FieldsSet => config.ExistingClusterKubeconfig = ChosenString(KubeIdx)
    /\ Succeeded =>
         LET v == ChosenString(KubeIdx)
             r == ret.config.ExistingClusterKubeconfig
         IN /\ HasPrefix(v, <<"~","/">>)
                 => r = HomeDir \o <<"/">> \o SubSeq(v, 3, Len(v))
            /\ ~HasPrefix(r, <<"~","/">>)
            /\ sanatizeKubeconfigPath(r) = r
            /\ v = <<>> => r = <<>>

\* "~/e" from TANZU_EXISTING_CLUSTER_KUBECONFIG over "~/f" from the config
\* file is returned as "/h/e".
C14_Witness ==
    /\ Succeeded
    /\ ~HasArg(KubeIdx)
    /\ EnvOf(KubeIdx) = <<"~","/","e">>
    /\ FileOf(KubeIdx) = <<"~","/","f">>
    /\ ret.config.ExistingClusterKubeconfig = <<"/","h","/","e">>

----------------------------------------------------------------------------
(* YAML documents (gopkg.in/yaml.v3) as node trees: a scalar keeps its text *)
(* and whether it is written plain or quoted, a sequence its items, a       *)
(* mapping the node of each key. A plain scalar is typed on reading by      *)
(* what its text looks like.                                                *)

Scalar(text, style) == [kind |-> "scalar", value |-> text, style |-> style]
SeqNode(items) == [kind |-> "sequence", content |-> items]
MapNode(byKey) == [kind |-> "mapping", content |-> byKey]
\* Bytes that are no YAML document.
MalformedDoc == [kind |-> "malformed"]

NullTexts == { <<>>, <<"~">>, <<"n","u","l","l">>, <<"N","u","l","l">>, <<"N","U","L","L">> }
BoolTrueTexts == { <<"t","r","u","e">>, <<"T","r","u","e">>, <<"T","R","U","E">> }
BoolFalseTexts == { <<"f","a","l","s","e">>, <<"F","a","l","s","e">>, <<"F","A","L","S","E">> }

\* resolve(): the tag of a plain scalar.
ResolveTag(text) ==
    IF text \in NullTexts THEN "null"
    ELSE IF text \in BoolTrueTexts \cup BoolFalseTexts THEN "bool"
    ELSE IF Atoi(text).ok THEN "int"
    ELSE "str"

\* isOldBool(): YAML 1.1 booleans, written quoted for older readers.
isOldBool(text) ==
    ToLower(text) \in { <<"y">>, <<"n">>, <<"y","e","s">>, <<"n","o">>,
                        <<"o","n">>, <<"o","f","f">> }

\* strconv.Itoa
RECURSIVE NatDigits(_)
NatDigits(n) ==
    IF n < 10 THEN <<Digits[n + 1]>>
    ELSE NatDigits(n \div 10) \o <<Digits[(n % 10) + 1]>>
Itoa(i) == IF i < 0 THEN <<"-">> \o NatDigits(0 - i) ELSE NatDigits(i)

\* The encoder writing every string plain.
EncodeString_AlwaysPlain(s) == Scalar(s, "plain")

\* encoder.stringv: plain only when the text reads back as a string.
EncodeString(s) ==
    Scalar(s, IF ResolveTag(s) = "str" /\ ~isOldBool(s) THEN "plain" ELSE "quoted")
EncodeInt(i) == Scalar(Itoa(i), "plain")
EncodeBool(b) == Scalar(IF b THEN <<"t","r","u","e">> ELSE <<"f","a","l","s","e">>, "plain")

\* A value held as interface{}: its dynamic type and the value.
EncodeAny(x) ==
    CASE x.t = "string" -> EncodeString(x.v)
      [] x.t = "int" -> EncodeInt(x.v)
      [] x.t = "bool" -> EncodeBool(x.v)
      [] OTHER -> Scalar(<<"n","u","l","l">>, "plain")

\* The fields of PortMap and InstallPackage: name, yaml key, type, omitempty.
PortMapFields ==
    << [name |-> "ListenAddress", yaml |-> "ListenAddress", type |-> "string", omitempty |-> TRUE],
       [name |-> "HostPort", yaml |-> "HostPort", type |-> "int", omitempty |-> TRUE],
       [name |-> "ContainerPort", yaml |-> "ContainerPort", type |-> "int", omitempty |-> FALSE],
       [name |-> "Protocol", yaml |-> "Protocol", type |-> "string", omitempty |-> TRUE] >>
InstallPackageFields ==
    << [name |-> "Name", yaml |-> "name", type |-> "string", omitempty |-> TRUE],
       [name |-> "Config", yaml |-> "config", type |-> "string", omitempty |-> TRUE],
       [name |-> "Version", yaml |-> "version", type |-> "string", omitempty |-> TRUE],
       [name |-> "Namespace", yaml |-> "namespace", type |-> "string", omitempty |-> TRUE] >>

\* isZero() of a string or an int field.
IsZeroValue(type, v) == IF type = "int" THEN v = 0 ELSE v = <<>>

EncodeLeaf(type, v) == IF type = "int" THEN EncodeInt(v) ELSE EncodeString(v)

\* A PortMap or an InstallPackage: a mapping of the fields that are not left
\* out by omitempty.
EncodeRecord(fields, rec) ==
    LET kept == { i \in 1..Len(fields) :
                    ~(fields[i].omitempty /\ IsZeroValue(fields[i].type, rec[fields[i].name])) }
    IN MapNode([k \in { fields[i].yaml : i \in kept } |->
                  LET f == fields[CHOOSE i \in kept : fields[i].yaml = k]
                  IN EncodeLeaf(f.type, rec[f.name])])

\* The entries of a map[string]interface{}; a nil map is written as {}.
MapValues(m) == IF m.nil THEN << >> ELSE m.values
EncodeMap(m) ==
    MapNode([k \in (IF m.nil THEN {} ELSE m.keys) |-> EncodeAny(m.values[k])])

\* A field of UnmanagedClusterConfig.
EncodeField(type, v) ==
    CASE type = "string" -> EncodeString(v)
      [] type = "bool" -> EncodeBool(v)
      [] type = "map" -> EncodeMap(v)
      [] type = "[]string" -> SeqNode([i \in 1..Len(v) |-> EncodeString(v[i])])
      [] type = "[]PortMap" ->
           SeqNode([i \in 1..Len(v) |-> EncodeRecord(PortMapFields, v[i])])
      [] OTHER -> SeqNode([i \in 1..Len(v) |-> EncodeRecord(InstallPackageFields, v[i])])

\* yamlEncoder.Encode(config): a mapping with every field of the struct under
\* its yaml name.
EncodeConfig(c) ==
    MapNode([y \in { StructFields[i].yaml : i \in 1..NumField } |->
               LET f == StructFields[CHOOSE i \in 1..NumField : StructFields[i].yaml = y]
               IN EncodeField(f.type, c[f.name])])

\* Decoding gives the value and whether the node could not be decoded into
\* the type asked for (a yaml.TypeError).
PlainNull(node) ==
    node.kind = "scalar" /\ node.style = "plain" /\ ResolveTag(node.value) = "null"
PlainOf(node, tag) ==
    node.kind = "scalar" /\ node.style = "plain" /\ ResolveTag(node.value) = tag

\* decoder.scalar into a string: the text of the scalar, the zero value for
\* a null.
DecodeString(node) ==
    IF node.kind # "scalar" THEN [err |-> TRUE, v |-> <<>>]
    ELSE IF PlainNull(node) THEN [err |-> FALSE, v |-> <<>>]
    ELSE [err |-> FALSE, v |-> node.value]

\* decoder.scalar into an int: only a scalar that resolves to an integer.
DecodeInt(node) ==
    IF PlainOf(node, "int") THEN [err |-> FALSE, v |-> Atoi(node.value).val]
    ELSE IF PlainNull(node) THEN [err |-> FALSE, v |-> 0]
    ELSE [err |-> TRUE, v |-> 0]

\* decoder.scalar into a bool.
DecodeBool(node) ==
    IF PlainOf(node, "bool") THEN [err |-> FALSE, v |-> node.value \in BoolTrueTexts]
    ELSE IF PlainNull(node) THEN [err |-> FALSE, v |-> FALSE]
    ELSE [err |-> TRUE, v |-> FALSE]

\* decoder.scalar into an interface{}: the value of the resolved type.
DecodeAny(node) ==
    IF node.kind # "scalar" THEN [t |-> "node", v |-> node]
    ELSE IF node.style = "quoted" THEN [t |-> "string", v |-> node.value]
    ELSE CASE ResolveTag(node.value) = "int" -> [t |-> "int", v |-> Atoi(node.value).val]
           [] ResolveTag(node.value) = "bool" ->
                [t |-> "bool", v |-> node.value \in BoolTrueTexts]
           [] ResolveTag(node.value) = "null" -> [t |-> "nil", v |-> <<>>]
           [] OTHER -> [t |-> "string", v |-> node.value]

DecodeLeaf(type, node) == IF type = "int" THEN DecodeInt(node) ELSE DecodeString(node)
ZeroLeaf(type) == IF type = "int" THEN 0 ELSE <<>>

\* One field of a PortMap or an InstallPackage: the node under its yaml key,
\* the zero value when the key is missing.
DecodeRecordField(f, node) ==
    IF f.yaml \in DOMAIN node.content THEN DecodeLeaf(f.type, node.content[f.yaml])
    ELSE [err |-> FALSE, v |-> ZeroLeaf(f.type)]

\* decoder.mappingStruct for PortMap and InstallPackage.
DecodeRecord(fields, node) ==
    LET names == { fields[i].name : i \in 1..Len(fields) }
        fieldOf(n) == fields[CHOOSE i \in 1..Len(fields) : fields[i].name = n]
    IN IF node.kind # "mapping"
       THEN [err |-> ~PlainNull(node), v |-> [n \in names |-> ZeroLeaf(fieldOf(n).type)]]
       ELSE [err |-> \E n \in names : DecodeRecordField(fieldOf(n), node).err,
             v |-> [n \in names |-> DecodeRecordField(fieldOf(n), node).v]]

\* decoder.sequence into []string.
DecodeStringSeq(node) ==
    IF node.kind # "sequence" THEN [err |-> ~PlainNull(node), v |-> <<>>]
    ELSE [err |-> \E i \in 1..Len(node.content) : DecodeString(node.content[i]).err,
          v |-> [i \in 1..Len(node.content) |-> DecodeString(node.content[i]).v]]

\* decoder.sequence into []PortMap or []InstallPackage.
DecodeRecordSeq(fields, node) ==
    IF node.kind # "sequence" THEN [err |-> ~PlainNull(node), v |-> <<>>]
    ELSE [err |-> \E i \in 1..Len(node.content) : DecodeRecord(fields, node.content[i]).err,
          v |-> [i \in 1..Len(node.content) |-> DecodeRecord(fields, node.content[i]).v]]

\* decoder.mapping into a map[string]interface{}: a map is made for a mapping
\* node, also for the empty one.
DecodeMap(node) ==
    IF node.kind # "mapping" THEN [err |-> ~PlainNull(node), v |-> NilMap]
    ELSE [err |-> FALSE,
          v |-> [nil |-> FALSE, keys |-> DOMAIN node.content,
                 values |-> [k \in DOMAIN node.content |-> DecodeAny(node.content[k])]]]

DecodeField(type, node) ==
    CASE type = "string" -> DecodeString(node)
      [] type = "bool" -> DecodeBool(node)
      [] type = "map" -> DecodeMap(node)
      [] type = "[]string" -> DecodeStringSeq(node)
      [] type = "[]PortMap" -> DecodeRecordSeq(PortMapFields, node)
      [] OTHER -> DecodeRecordSeq(InstallPackageFields, node)

\* One field of UnmanagedClusterConfig, left at its zero value when the
\* document has no such key.
DecodeConfigField(f, doc) ==
    IF f.yaml \in DOMAIN doc.content THEN DecodeField(f.type, doc.content[f.yaml])
    ELSE [err |-> FALSE, v |-> ZeroOf(f.type)]

\* yaml.Unmarshal(d, scc) onto the zero struct.
DecodeConfig(doc) ==
    LET fieldOf(n) == StructFields[CHOOSE i \in 1..NumField : StructFields[i].name = n]
    IN IF doc.kind # "mapping" THEN [err |-> TRUE, v |-> ZeroConfig]
       ELSE [err |-> \E n \in FieldNames : DecodeConfigField(fieldOf(n), doc).err,
             v |-> [n \in FieldNames |-> DecodeConfigField(fieldOf(n), doc).v]]

----------------------------------------------------------------------------
(* RenderConfigToFile and RenderFileToConfig on one path                   *)

NoDoc == [kind |-> "none"]
Absent == [kind |-> "absent", content |-> NoDoc]
Directory == [kind |-> "dir", content |-> NoDoc]
FileWith(doc) == [kind |-> "file", content |-> doc]

\* os.ReadDir(filePath): no error for a directory, ENOTDIR for a file,
\* ENOENT for a path that is not there.
ReadDirErr(d) ==
    CASE d.kind = "dir" -> "nil"
      [] d.kind = "file" -> "ENOTDIR"
      [] OTHER -> "ENOENT"

\* os.IsNotExist that also takes ENOTDIR for a missing path.
IsNotExist_OrNotDir(err) == err \in {"ENOENT", "ENOTDIR"}

\* os.IsNotExist
IsNotExist(err) == err = "ENOENT"

\* The configurations that are rendered.
EmptyMap == [nil |-> FALSE, keys |-> {}, values |-> << >>]
ProviderMap ==
    [nil |-> FALSE, keys |-> {"image", "replicas", "debug", "tag"},
     values |-> [k \in {"image", "replicas", "debug", "tag"} |->
                   CASE k = "image" -> [t |-> "string", v |-> <<"k","i","n","d">>]
                     [] k = "replicas" -> [t |-> "int", v |-> 3]
                     [] k = "debug" -> [t |-> "bool", v |-> TRUE]
                     [] OTHER -> [t |-> "string", v |-> <<"1">>]]]
CniMap ==
    [nil |-> FALSE, keys |-> {"ipv6", "mtu"},
     values |-> [k \in {"ipv6", "mtu"} |->
                   IF k = "ipv6" THEN [t |-> "string", v |-> <<"t","r","u","e">>]
                   ELSE [t |-> "nil", v |-> <<>>]]]
PortMapLocal ==
    [ListenAddress |-> <<"1","2","7",".","0",".","0",".","1">>, HostPort |-> 8080,
     ContainerPort |-> 0, Protocol |-> <<"u","d","p">>]

RenderConfigs ==
    { [ZeroConfig EXCEPT !.ClusterName = cn, !.LogFile = lf,
                         !.SkipPreflightChecks = sk,
                         !.AdditionalPackageRepos = repos,
                         !.PortsToForward = ports, !.InstallPackages = pkgs,
                         !.ProviderConfiguration = pc1, !.CNIConfiguration = pc2] :
        cn \in { <<"x">>, <<"1">> },
        lf \in { <<>>, <<"~">>, <<"n","o">> },
        sk \in BOOLEAN,
        repos \in { <<>>, << <<"a">>, <<"t","r","u","e">> >> },
        ports \in { <<>>, <<PortMap80>>, <<PortMap443, PortMapLocal>> },
        pkgs \in { <<>>, <<PackageQ, PackageP>> },
        pc1 \in { NilMap, EmptyMap, ProviderMap },
        pc2 \in { NilMap, CniMap } }

\* A config file written by hand: plain scalars, keys left out, a key that
\* is no field.
HandWrittenDoc ==
    MapNode((ClusterName :> Scalar(<<"o","l","d">>, "plain"))
            @@ (WorkerNodeCount :> Scalar(<<"2">>, "plain"))
            @@ (<<"O","w","n","e","r">> :> Scalar(<<"m","e">>, "plain")))

RenderInit ==
    /\ CfgIdle
    /\ PmIdle
    /\ IpIdle
    /\ EnIdle
    /\ GdIdle
    /\ CmdIdle
    /\ disk \in { Absent, Directory, FileWith(MalformedDoc), FileWith(HandWrittenDoc) }
    /\ diskInit = disk
    /\ canCreate \in BOOLEAN
    /\ written = <<>>
    /\ rcErr = "none"
    /\ rfRet = [nil |-> TRUE, config |-> ZeroConfig, err |-> "none"]
    /\ lastCall = "none"

\* RenderConfigToFile(filePath, config): an error, whatever the configuration,
\* unless os.ReadDir reports that the path is not there; then the encoded
\* configuration is written, which fails where no file can be created.
RenderConfigToFile ==
    /\ IF ~IsNotExist(ReadDirErr(disk))
       THEN /\ rcErr' = "exists"
            /\ UNCHANGED <<disk, written>>
       ELSE IF ~canCreate
       THEN /\ rcErr' = "write"
            /\ UNCHANGED <<disk, written>>
       ELSE \E c \in RenderConfigs :
              /\ disk' = FileWith(EncodeConfig(c))
              /\ written' = Append(written, c)
              /\ rcErr' = "nil"
    /\ lastCall' = "RenderConfigToFile"
    /\ UNCHANGED <<diskInit, canCreate, rfRet>>
    /\ UNCHANGED notRenderVars

\* The result of yaml.Unmarshal handed out by RenderFileToConfig.
Unmarshalled(d) ==
    IF d.err THEN [nil |-> TRUE, config |-> ZeroConfig, err |-> "invalid"]
    ELSE [nil |-> FALSE, config |-> d.v, err |-> "nil"]

\* RenderFileToConfig(filePath): os.ReadFile fails unless the path is a file.
RenderFileToConfig ==
    /\ rfRet' = IF disk.kind # "file"
                THEN [nil |-> TRUE, config |-> ZeroConfig, err |-> "read"]
                ELSE Unmarshalled(DecodeConfig(disk.content))
    /\ lastCall' = "RenderFileToConfig"
    /\ UNCHANGED <<disk, diskInit, canCreate, written, rcErr>>
    /\ UNCHANGED notRenderVars

RenderNext == RenderConfigToFile \/ RenderFileToConfig

SpecRender == RenderInit /\ [][RenderNext]_vars

----------------------------------------------------------------------------
(* Properties of RenderConfigToFile and RenderFileToConfig                 *)

\* Two interface{} values of the same dynamic type and value.
SameValue(x, y) == x.t = y.t /\ x.v = y.v

\* Two maps with the same entries.
SameEntries(a, b) ==
    /\ DOMAIN MapValues(a) = DOMAIN MapValues(b)
    /\ \A k \in DOMAIN MapValues(a) : SameValue(MapValues(a)[k], MapValues(b)[k])

\* Two configurations equal field for field: strings, booleans and sequences
\* equal, the two maps with the same entries.
ConfigEqual(a, b) ==
    \A i \in 1..NumField :
      IF StructFields[i].type = "map"
      THEN SameEntries(a[StructFields[i].name], b[StructFields[i].name])
      ELSE a[StructFields[i].name] = b[StructFields[i].name]

C16_NeverOverwrites ==
    /\ diskInit.kind # "absent" =>
         /\ disk = diskInit
         /\ written = <<>>
         /\ rcErr \in {"none", "exists"}
    /\ Len(written) <= 1
    /\ written = <<>> => disk = diskInit
    /\ Len(written) >= 1 =>
         /\ diskInit.kind = "absent"
         /\ disk = FileWith(EncodeConfig(written[1]))

\* A call refused on the file that an earlier call wrote.
C16_Witness ==
    /\ lastCall = "RenderConfigToFile"
    /\ rcErr = "exists"
    /\ Len(written) = 1
    /\ disk = FileWith(EncodeConfig(written[1]))

----------------------------------------------------------------------------
(* fieldNameToEnvName on field names, and the setter of a field with that   *)
(* name looking the variable up                                             *)

MaxWords == 3           \* most capitalized words in a generated field name

\* The words of generated names (an upper-case letter and what follows it up
\* to the next one) with their upper-case form.
WordTokens ==
    { [text |-> <<"P">>, upper |-> <<"P">>],
      [text |-> <<"P","o","d">>, upper |-> <<"P","O","D">>],
      [text |-> <<"C","i","d","r">>, upper |-> <<"C","I","D","R">>],
      [text |-> <<"K","8","s","-","x">>, upper |-> <<"K","8","S","-","X">>] }

\* A generated name: text before the first upper-case letter, then words. A
\* name of the struct is given by the index of its field.
NameShapes ==
    { [idx |-> 0, prefix |-> p, words |-> w] :
        p \in { <<>>, <<"x","y">> },
        w \in UNION { [1..n -> WordTokens] : n \in 0..MaxWords } }
    \cup { [idx |-> i, prefix |-> <<>>, words |-> <<>>] : i \in 1..NumField }

RECURSIVE ConcatWords(_)
ConcatWords(words) ==
    IF Len(words) = 0 THEN <<>> ELSE words[1].text \o ConcatWords(Tail(words))

NameText(shape) ==
    IF shape.idx > 0 THEN StructFields[shape.idx].yaml
    ELSE shape.prefix \o ConcatWords(shape.words)

\* The field of the struct a setter of the type fills.
SlotOf(type) ==
    CASE type = "string" -> "LogFile"
      [] type = "bool" -> "SkipPreflightChecks"
      [] type = "[]string" -> "AdditionalPackageRepos"
      [] type = "[]PortMap" -> "PortsToForward"
      [] OTHER -> "InstallPackages"

SetterTypes == {"string", "bool", "[]string", "[]PortMap", "[]InstallPackage"}

EnInit ==
    /\ CfgIdle
    /\ PmIdle
    /\ IpIdle
    /\ RenderIdle
    /\ GdIdle
    /\ CmdIdle
    /\ enShape \in NameShapes
    /\ IF enShape.idx > 0
       THEN enField = StructFields[enShape.idx]
       ELSE \E t \in SetterTypes :
              enField = [name |-> SlotOf(t), yaml |-> NameText(enShape), type |-> t]
    /\ enPc = "start"
    /\ enRet = <<>>
    /\ enSet = [panic |-> FALSE, cfg |-> ZeroConfig]

\* fieldNameToEnvName(fieldName)
CallFieldNameToEnvName ==
    /\ enPc = "start"
    /\ enRet' = fieldNameToEnvName(enField.yaml)
    /\ enPc' = "named"
    /\ UNCHANGED <<enShape, enField, enSet>>
    /\ UNCHANGED notEnVars

\* The environment of the setter call: "true" under the name returned, "0"
\* under the upper-cased field name without prefix and separators.
LookupEnv(name, field) == (name :> <<"t","r","u","e">>) @@ (ToUpper(field.yaml) :> <<"0">>)

\* The switch of the field loop on the field, with no explicit argument and
\* the zero struct.
CallSetter ==
    /\ enPc = "named"
    /\ enSet' = SetField(<< >>, LookupEnv(enRet, enField), ZeroConfig, enField)
    /\ enPc' = "done"
    /\ UNCHANGED <<enShape, enField, enRet>>
    /\ UNCHANGED notEnVars

EnNext == CallFieldNameToEnvName \/ CallSetter

SpecEnvName == EnInit /\ [][EnNext]_vars

----------------------------------------------------------------------------
(* Properties of fieldNameToEnvName                                        *)

RECURSIVE UpperWords(_)
UpperWords(words) ==
    IF Len(words) = 0 THEN <<>>
    ELSE <<"_">> \o words[1].upper \o UpperWords(Tail(words))

\* "TANZU", then "_" and the upper-case form of every word.
ExpectedEnvName(shape) ==
    IF shape.idx > 0 THEN UserEnvNames[shape.idx]
    ELSE <<"T","A","N","Z","U">> \o UpperWords(shape.words)

\* C17: fieldNameToEnvName returns "TANZU" followed, for every word of the
\* name (an upper-case letter and the characters up to the next upper-case
\* letter) in order, by "_" and the word in upper case, text before the first
\* upper-case letter belonging to no word; for the fields of the struct this
\* is TANZU_CLUSTER_NAME, TANZU_POD_CIDR, ...; and the setter of a field,
\* given a value under that name only, takes it: the string setter stores
\* it, the bool setter parses it, the string slice setter splits it and the
\* two record slice setters go into their environment branch (which ends in
\* a panic), while a field without setter stays as it is.
C17_EnvName ==
    /\ enPc \in {"named", "done"} => enRet = ExpectedEnvName(enShape)
    /\ enPc = "done" =>
         CASE enField.type = "string" ->
                ~enSet.panic /\ enSet.cfg[enField.name] = <<"t","r","u","e">>
           [] enField.type = "bool" -> ~enSet.panic /\ enSet.cfg[enField.name] = TRUE
           [] enField.type = "[]string" ->
                ~enSet.panic /\ enSet.cfg[enField.name] = << <<"t","r","u","e">> >>
           [] enField.type \in {"[]PortMap", "[]InstallPackage"} -> enSet.panic
           [] OTHER -> ~enSet.panic /\ enSet.cfg = ZeroConfig

\* PodCidr gives TANZU_POD_CIDR, and the string setter stores the value set
\* under that name.
C17_Witness ==
    /\ enPc = "done"
    /\ enField.yaml = <<"P","o","d","C","i","d","r">>
    /\ enShape.idx > 0
    /\ enRet = <<"T","A","N","Z","U","_","P","O","D","_","C","I","D","R">>
    /\ enSet.cfg.PodCidr = <<"t","r","u","e">>

----------------------------------------------------------------------------
(* Properties of InitializeConfiguration: the config file                  *)

\* C18: with a non-empty ClusterConfigFile argument and a file that cannot be
\* read or is no valid YAML, InitializeConfiguration returns the read error
\* or the YAML error with a nil configuration straight from the file step:
\* the field loop and the cluster name check are never entered and no
\* default is applied, also when ClusterName is passed as explicit argument;
\* without the argument, or with an empty one, the file is not read whatever
\* its state is and the field loop starts from the zero struct.
C18_FileErrorFirst ==
    /\ FileFails =>
         /\ pc \in {"start", "done"}
         /\ config = ZeroConfig
         /\ pc = "done" =>
              /\ ret.returned /\ ret.nil
              /\ ret.err = IF fsFile.state = "missing" THEN "read" ELSE "yaml"
    /\ ~FileRead =>
         /\ pc = "fields" => config = ZeroConfig
         /\ pc = "done" => ret.err \notin {"read", "yaml"}

\* The YAML error returned although ClusterName and Provider were passed as
\* explicit arguments: neither reached the struct.
C18_Witness ==
    /\ pc = "done" /\ FileFails /\ fsFile.state = "malformed"
    /\ NonEmptyStringArg(ClusterNameIdx)
    /\ NonEmptyStringArg(IdxOf("Provider"))
    /\ ret.err = "yaml" /\ ret.nil
    /\ config.ClusterName = <<>> /\ config.Provider = <<>>

----------------------------------------------------------------------------
(* Properties of InitializeConfiguration: mappings from the environment    *)

\* The records of the well-formed mapping strings of the explored calls.
WellFormedMappings ==
    (<<"8","0">> :> <<PortMap80>>)
    @@ (<<"8","0",":","8","1","/","t","c","p">> :>
          << [ListenAddress |-> <<>>, HostPort |-> 81, ContainerPort |-> 80,
              Protocol |-> <<"t","c","p">>] >>)
    @@ (<<"p",":","1">> :> <<PackageP>>)

NoArgSequence(i) == ~HasArg(i) \/ Len(ArgOf(i)) = 0

\* C19: for PortsToForward and InstallPackages, with no explicit argument
\* sequence and a well-formed mapping string in the environment variable, the
\* field loop runs to its end and leaves in the field the records the parser
\* returns for that string, as a flat sequence.
C19_EnvMappingResolved ==
    \A i \in {PortsIdx, PackagesIdx} :
      (/\ pc \in {"check", "panic", "done"}
       /\ ~FileFails
       /\ NoArgSequence(i)
       /\ EnvOf(i) \in DOMAIN WellFormedMappings)
        => /\ pc # "panic"
           /\ config[StructFields[i].name] = WellFormedMappings[EnvOf(i)]

----------------------------------------------------------------------------
(* Properties of ParsePortMappings: the grammar                            *)

\* C20: ParsePortMappings returns an error for every call with a mapping
\* that has more than one "/", so every accepted mapping has the form
\* [listenAddress:]containerPort[:hostPort][/protocol].
C20_OneSlashOnly ==
    PmDone =>
      ((\E k \in 1..Len(pmShape) : Len(pmShape[k].protos) > 1) => pmRet.err # "nil")

----------------------------------------------------------------------------
(* Defaults, skipped fields, the boolean field and independence of fields  *)

\* The string fields with an entry in defaultConfigValues.
DefaultedFields ==
    { i \in StringFields : StructFields[i].yaml \in DOMAIN defaultConfigValues }

\* A non-empty value for field i in the explicit argument, the environment
\* or the config file.
SourceSupplied(i) ==
    NonEmptyStringArg(i) \/ EnvOf(i) # <<>> \/ FileOf(i) # <<>>

\* C21: in every call that returns a configuration, whatever the arguments,
\* the environment and the file are, each string field with a registered
\* default (Provider, Cni, PodCidr, ServiceCidr, ControlPlaneNodeCount,
\* WorkerNodeCount) is non-empty, and a string field without a registered
\* default is empty exactly when neither argument, environment nor file gave a
\* non-empty value.
C21_DefaultedNonEmpty ==
    Succeeded =>
      /\ { StructFields[i].name : i \in DefaultedFields }
           = { "Provider", "Cni", "PodCidr", "ServiceCidr",
               "ControlPlaneNodeCount", "WorkerNodeCount" }
      /\ \A i \in StringFields :
           IF i \in DefaultedFields
           THEN ret.config[StructFields[i].name] # <<>>
           ELSE (ret.config[StructFields[i].name] = <<>>) <=> ~SourceSupplied(i)

\* TkrLocation passed as the empty string, with no environment and no file
\* value, is returned empty, while PodCidr, which no source names, is returned
\* as its default.
C21_Witness ==
    /\ Succeeded
    /\ HasArg(IdxOf("TkrLocation")) /\ ArgOf(IdxOf("TkrLocation")) = <<>>
    /\ ~SourceSupplied(IdxOf("TkrLocation"))
    /\ ret.config.TkrLocation = <<>>
    /\ ~SourceSupplied(IdxOf("PodCidr"))
    /\ ret.config.PodCidr = defaultConfigValues[PodCIDR]

MapFields == { i \in 1..NumField : StructFields[i].type = "map" }

\* C22: the two map fields are left as the config file step left them at
\* every point after that step (nil without a file), and so in a returned
\* configuration, whatever commandArgs and the environment hold under their
\* names; a call that holds something under their names does not panic and
\* returns an error only for a failing file or a missing cluster name.
C22_MapsSkipped ==
    \A i \in MapFields :
      /\ pc # "start" => config[StructFields[i].name] = FileOf(i)
      /\ Succeeded => ret.config[StructFields[i].name] = FileOf(i)
      /\ (~FileRead /\ pc # "start") => config[StructFields[i].name] = NilMap
      /\ (HasArg(i) \/ EnvOf(i) # <<>>) =>
           /\ pc # "panic"
           /\ (Returned /\ ret.err # "nil") => (FileFails \/ NoClusterName)

\* ProviderConfiguration is in commandArgs and in the environment and the
\* file holds another map for it: the file's map is returned.
C22_Witness ==
    /\ Succeeded
    /\ HasArg(IdxOf("ProviderConfiguration"))
    /\ ArgOf(IdxOf("ProviderConfiguration")) = MapArg
    /\ EnvOf(IdxOf("ProviderConfiguration")) = <<"e">>
    /\ FileOf(IdxOf("ProviderConfiguration")) = MapFile
    /\ ret.config.ProviderConfiguration = MapFile

\* What strconv.ParseBool makes of the environment values of the explored
\* calls, its error dropped.
EnvBool ==
    (<<"t","r","u","e">> :> TRUE) @@ (<<"0">> :> FALSE) @@ (<<"T">> :> TRUE)
    @@ (<<"y","e","s">> :> FALSE)

\* C23: in every call that returns a configuration, SkipPreflightChecks is
\* the commandArgs value whenever the key is in commandArgs (false stays false
\* against a true environment and a true file); without the key it is the
\* parsed environment value if the variable is not empty, and without both it
\* is the value from the file.
C23_BoolArgDecides ==
    Succeeded =>
      ret.config.SkipPreflightChecks =
        IF HasArg(SkipIdx) THEN ArgOf(SkipIdx)
        ELSE IF EnvOf(SkipIdx) # <<>> THEN EnvBool[EnvOf(SkipIdx)]
        ELSE FileOf(SkipIdx)

\* SkipPreflightChecks = false in commandArgs, "true" in the environment and
\* true in the file: false is returned.
C23_Witness ==
    /\ Succeeded
    /\ HasArg(SkipIdx) /\ ArgOf(SkipIdx) = FALSE
    /\ EnvOf(SkipIdx) = <<"t","r","u","e">>
    /\ FileOf(SkipIdx) = TRUE
    /\ ret.config.SkipPreflightChecks = FALSE

\* The call with the inputs of field i alone: every other field is in no
\* source.
OwnArgs(i) == IF HasArg(i) THEN StructFields[i].yaml :> ArgOf(i) ELSE <<>>
OwnEnv(i) ==
    IF UserEnvNames[i] \in DOMAIN env THEN UserEnvNames[i] :> env[UserEnvNames[i]]
    ELSE <<>>
OwnFile(i) == [ZeroConfig EXCEPT ![StructFields[i].name] = FileOf(i)]
ResolvedAlone(i) == FieldLoop(OwnArgs(i), OwnEnv(i), OwnFile(i), 1)

\* C24: in every call that returns a configuration, each field holds the
\* value the field loop gives it in the call that differs only in that every
\* other field is given nothing, in any source (with the kubeconfig path
\* rewritten as on return); the value of a field follows from its own
\* argument, environment variable, file value and default.
C24_PerField ==
    Succeeded =>
      \A i \in 1..NumField :
        /\ ~ResolvedAlone(i).panic
        /\ ret.config[StructFields[i].name]
             = ReturnedFor(i, ResolvedAlone(i).cfg[StructFields[i].name])

\* The cluster name comes from the environment and NodeImage from the file
\* in one call; each is what its own sources give.
C24_Witness ==
    /\ Succeeded
    /\ EnvOf(ClusterNameIdx) = <<"y">> /\ ~HasArg(ClusterNameIdx)
    /\ FileOf(IdxOf("NodeImage")) = <<"f">> /\ EnvOf(IdxOf("NodeImage")) = <<>>
    /\ ~NonEmptyStringArg(IdxOf("NodeImage"))
    /\ ret.config.ClusterName = <<"y">>
    /\ ret.config.NodeImage = <<"f">>

----------------------------------------------------------------------------
(* GenerateDefaultConfig                                                   *)

defaultName == <<"d","e","f","a","u","l","t","-","n","a","m","e">>

\* emptyConfig: the arguments GenerateDefaultConfig hands to the setters.
emptyConfig ==
    (ClusterConfigFile :> <<>>)
    @@ (ClusterName :> <<>>)
    @@ (Tty :> <<>>)
    @@ (TKRLocation :> <<>>)
    @@ (Provider :> <<>>)
    @@ (Cni :> <<>>)
    @@ (PodCIDR :> <<>>)
    @@ (ServiceCIDR :> <<>>)
    @@ (ControlPlaneNodeCount :> <<>>)
    @@ (WorkerNodeCount :> <<>>)
    @@ (AdditionalPackageRepos :> <<>>)

\* A call of GenerateDefaultConfig in an environment that sets the variables
\* of at most two fields of the struct.
GdInit ==
    /\ CfgIdle
    /\ PmIdle
    /\ IpIdle
    /\ RenderIdle
    /\ EnIdle
    /\ CmdIdle
    /\ \E i \in 1..NumField, j \in 1..NumField :
       \E vi \in EnvChoices(StructFields[i].type), vj \in EnvChoices(StructFields[j].type) :
          /\ i < j
          /\ gdEnv = (IF vi # <<>> THEN UserEnvNames[i] :> vi ELSE <<>>)
                       @@ (IF vj # <<>> THEN UserEnvNames[j] :> vj ELSE <<>>)
    /\ gdConfig = ZeroConfig
    /\ gdPc = "start"

\* Lines 265-289: the field loop of GenerateDefaultConfig, the setters called
\* with emptyConfig on the zero struct.
GdSetFields ==
    /\ gdPc = "start"
    /\ gdConfig' = FieldLoop(emptyConfig, gdEnv, gdConfig, 1).cfg
    /\ gdPc' = IF FieldLoop(emptyConfig, gdEnv, gdConfig, 1).panic THEN "panic" ELSE "name"
    /\ UNCHANGED gdEnv
    /\ UNCHANGED notGdVars

\* Lines 291-293: config.ClusterName = defaultName; return config.
GdReturn ==
    /\ gdPc = "name"
    /\ gdConfig' = [gdConfig EXCEPT !.ClusterName = defaultName]
    /\ gdPc' = "done"
    /\ UNCHANGED gdEnv
    /\ UNCHANGED notGdVars

GdNext == GdSetFields \/ GdReturn

SpecDefault == GdInit /\ [][GdNext]_vars

\* The configuration the claim describes for an environment without TANZU_*
\* variables.
DefaultsOnly(c) ==
    \A i \in 1..NumField :
      CASE StructFields[i].name = "ClusterName" -> c.ClusterName = defaultName
        [] i \in DefaultedFields ->
             c[StructFields[i].name] = defaultConfigValues[StructFields[i].yaml]
        [] StructFields[i].type = "string" -> c[StructFields[i].name] = <<>>
        [] StructFields[i].type = "bool" -> c[StructFields[i].name] = FALSE
        [] StructFields[i].type = "map" -> TRUE
        [] OTHER -> Len(c[StructFields[i].name]) = 0

\* C25: GenerateDefaultConfig never fails and always returns ClusterName =
\* "default-name", also with TANZU_CLUSTER_NAME set; with no TANZU_* variable
\* set each string field with a registered default equals it, every other
\* string field is empty, every sequence field has length zero and
\* SkipPreflightChecks is false.
C25_DefaultConfig ==
    /\ gdPc # "panic"
    /\ gdPc = "done" => gdConfig.ClusterName = defaultName
    /\ (gdPc = "done" /\ gdEnv = <<>>) => DefaultsOnly(gdConfig)

----------------------------------------------------------------------------
(* The commands hostagent and makeVm                                       *)
(* (src/cli/cmd/plugin/unmanaged-cluster/cmd/hostagent.go, make-vm.go).    *)
(* start.Start, called by makeVm, executes the hostagent command as a      *)
(* process of its own (hostagent.go, lines 45-47): the two handlers run    *)
(* side by side. Paths and flag values are plain strings here.             *)

\* The paths the flags can name. At a path there is nothing ("absent"), a
\* file or socket left by someone else ("file"), a directory ("dir"), or
\* the path cannot be looked at ("denied"); this call can leave its pid
\* file ("pid"), a file it created without writing the pid ("empty") and its
\* listening socket ("socket").
Paths == {"p", "s"}
FoundAtStart == {"absent", "file", "dir", "denied"}

\* os.Stat(path)
Stat(d, path) ==
    CASE d[path] = "absent" -> "ENOENT"
      [] d[path] = "denied" -> "EACCES"
      [] OTHER -> "nil"

\* The pidfile test that lets every path pass.
AlreadyExists_Never(err) == FALSE

\* !errors.Is(err, os.ErrNotExist)
AlreadyExists(err) == err # "ENOENT"

\* os.WriteFile(pidfile, pid, 0644) on a path where nothing is: the file
\* with the pid, or an error with no file created, or an error after the
\* file was created.
WriteOutcomes == {"nil", "EACCES", "ENOSPC"}
WriteFile(d, path, outcome) ==
    CASE outcome = "nil" -> [d EXCEPT ![path] = "pid"]
      [] outcome = "ENOSPC" -> [d EXCEPT ![path] = "empty"]
      [] OTHER -> d

\* os.RemoveAll(path): whatever is at the path is gone; a path that cannot
\* be looked at gives an error.
RemoveAll(d, path) ==
    IF d[path] = "denied" THEN [disk |-> d, err |-> "EACCES"]
    ELSE [disk |-> [d EXCEPT ![path] = "absent"], err |-> "nil"]

Call(name, err) == [call |-> name, err |-> err]

\* The deferred calls that never run.
RunDeferred_Never(d, deferred) == d

\* The deferred os.RemoveAll calls of the function, run last registered
\* first when the function returns or panics; their errors are dropped.
RECURSIVE RunDeferred(_, _)
RunDeferred(d, deferred) ==
    IF deferred = <<>> THEN d
    ELSE RunDeferred(RemoveAll(d, deferred[Len(deferred)]).disk,
                     SubSeq(deferred, 1, Len(deferred) - 1))
DeferredCalls(deferred) ==
    [k \in 1..Len(deferred) |->
        Call("defer os.RemoveAll(pidfile)", "dropped")]

\* return err: the deferred calls run, then the caller has the error.
HaReturn(d, calls, err) ==
    /\ haDisk' = RunDeferred(d, haDeferred)
    /\ haCalls' = calls \o DeferredCalls(haDeferred)
    /\ haRet' = err
    /\ haPc' = "done"
    /\ haDeferred' = haDeferred

\* A panic runs the deferred calls as well; nothing is returned.
HaPanic(d, calls) ==
    /\ haDisk' = RunDeferred(d, haDeferred)
    /\ haCalls' = calls \o DeferredCalls(haDeferred)
    /\ haRet' = haRet
    /\ haPc' = "panic"
    /\ haDeferred' = haDeferred

\* cmd.Flags().GetString(name)
GetString(name) ==
    IF name \in haUndefined THEN [value |-> "", err |-> "flag accessed but not defined"]
    ELSE [value |-> haFlags[name], err |-> "nil"]

\* Lines 49-62: the pidfile flag, the test of the path, the write of the pid
\* and the registration of the removal.
HaPidfile ==
    /\ haPc = "start"
    /\ IF GetString("pidfile").err # "nil"
       THEN HaReturn(haDisk, Append(haCalls, Call("GetString(pidfile)", GetString("pidfile").err)),
                     GetString("pidfile").err)
       ELSE IF haFlags.pidfile = ""
       THEN /\ haPc' = "socket"
            /\ haCalls' = Append(haCalls, Call("GetString(pidfile)", "nil"))
            /\ UNCHANGED <<haDisk, haDeferred, haRet>>
       ELSE IF AlreadyExists(Stat(haDisk, haFlags.pidfile))
       THEN HaReturn(haDisk,
                     haCalls \o << Call("GetString(pidfile)", "nil"),
                                   Call("os.Stat(pidfile)", Stat(haDisk, haFlags.pidfile)) >>,
                     "pidfile already exists")
       ELSE \E outcome \in WriteOutcomes :
              IF outcome # "nil"
              THEN HaReturn(WriteFile(haDisk, haFlags.pidfile, outcome),
                            haCalls \o << Call("GetString(pidfile)", "nil"),
                                          Call("os.Stat(pidfile)", "ENOENT"),
                                          Call("os.WriteFile(pidfile)", outcome) >>,
                            outcome)
              ELSE /\ haDisk' = WriteFile(haDisk, haFlags.pidfile, outcome)
                   /\ haCalls' = haCalls \o << Call("GetString(pidfile)", "nil"),
                                               Call("os.Stat(pidfile)", "ENOENT"),
                                               Call("os.WriteFile(pidfile)", "nil") >>
                   /\ haDeferred' = Append(haDeferred, haFlags.pidfile)
                   /\ haPc' = "socket"
                   /\ haRet' = haRet
    /\ UNCHANGED <<haFlags, haUndefined, haArgs, haDiskInit, haServer>>
    /\ UNCHANGED <<mvVars, notCmdVars>>

\* Lines 63-69: the socket flag.
HaSocketFlag ==
    /\ haPc = "socket"
    /\ IF GetString("socket").err # "nil"
       THEN HaReturn(haDisk, Append(haCalls, Call("GetString(socket)", GetString("socket").err)),
                     GetString("socket").err)
       ELSE IF haFlags.socket = ""
       THEN HaReturn(haDisk, Append(haCalls, Call("GetString(socket)", "nil")),
                     "socket must be specified")
       ELSE /\ haPc' = "agent"
            /\ haCalls' = Append(haCalls, Call("GetString(socket)", "nil"))
            /\ UNCHANGED <<haDisk, haDeferred, haRet>>
    /\ UNCHANGED <<haFlags, haUndefined, haArgs, haDiskInit, haServer>>
    /\ UNCHANGED <<mvVars, notCmdVars>>

\* Lines 71-87: args[0], the nerdctl-archive flag and hostagent.New.
HaNewAgent ==
    /\ haPc = "agent"
    /\ IF Len(haArgs) = 0
       THEN HaPanic(haDisk, Append(haCalls, Call("args[0]", "index out of range")))
       ELSE IF GetString("nerdctl-archive").err # "nil"
       THEN HaReturn(haDisk,
                     Append(haCalls, Call("GetString(nerdctl-archive)",
                                          GetString("nerdctl-archive").err)),
                     GetString("nerdctl-archive").err)
       ELSE \E err \in {"nil", "hostagent.New failed"} :
              IF err # "nil"
              THEN HaReturn(haDisk,
                            haCalls \o << Call("GetString(nerdctl-archive)", "nil"),
                                          Call("hostagent.New", err) >>,
                            err)
              ELSE /\ haPc' = "rmsock"
                   /\ haCalls' = haCalls \o << Call("GetString(nerdctl-archive)", "nil"),
                                               Call("hostagent.New", "nil") >>
                   /\ UNCHANGED <<haDisk, haDeferred, haRet>>
    /\ UNCHANGED <<haFlags, haUndefined, haArgs, haDiskInit, haServer>>
    /\ UNCHANGED <<mvVars, notCmdVars>>

\* Lines 89-98: the router and os.RemoveAll(socket).
HaRemoveSocket ==
    /\ haPc = "rmsock"
    /\ IF RemoveAll(haDisk, haFlags.socket).err # "nil"
       THEN HaReturn(haDisk,
                     Append(haCalls, Call("os.RemoveAll(socket)",
                                          RemoveAll(haDisk, haFlags.socket).err)),
                     RemoveAll(haDisk, haFlags.socket).err)
       ELSE /\ haDisk' = RemoveAll(haDisk, haFlags.socket).disk
            /\ haCalls' = Append(haCalls, Call("os.RemoveAll(socket)", "nil"))
            /\ haPc' = "listen"
            /\ UNCHANGED <<haDeferred, haRet>>
    /\ UNCHANGED <<haFlags, haUndefined, haArgs, haDiskInit, haServer>>
    /\ UNCHANGED <<mvVars, notCmdVars>>

\* Lines 99-109: net.Listen on the socket and the goroutine that serves it.
HaListen ==
    /\ haPc = "listen"
    /\ \E err \in {"nil", "listen failed"} :
         IF err # "nil"
         THEN /\ HaReturn(haDisk, Append(haCalls, Call("net.Listen", err)), err)
              /\ haServer' = haServer
         ELSE /\ haDisk' = [haDisk EXCEPT ![haFlags.socket] = "socket"]
              /\ haCalls' = Append(haCalls, Call("net.Listen", "nil"))
              /\ haServer' = "serving"
              /\ haPc' = "run"
              /\ UNCHANGED <<haDeferred, haRet>>
    /\ UNCHANGED <<haFlags, haUndefined, haArgs, haDiskInit>>
    /\ UNCHANGED <<mvVars, notCmdVars>>

\* Line 110: return ha.Run(cmd.Context()).
HaRun ==
    /\ haPc = "run"
    /\ \E err \in {"nil", "ha.Run failed"} :
         HaReturn(haDisk, Append(haCalls, Call("ha.Run", err)), err)
    /\ UNCHANGED <<haFlags, haUndefined, haArgs, haDiskInit, haServer>>
    /\ UNCHANGED <<mvVars, notCmdVars>>

\* Lines 103-109: srv.Serve ends in the goroutine; its deferred calls close
\* the server and remove the socket.
HaServeEnds ==
    /\ haServer = "serving"
    /\ haServer' = "closed"
    /\ haDisk' = RemoveAll(haDisk, haFlags.socket).disk
    /\ haCalls' = Append(haCalls, Call("defer os.RemoveAll(socket)", "dropped"))
    /\ UNCHANGED <<haFlags, haUndefined, haArgs, haDiskInit, haPc, haDeferred, haRet>>
    /\ UNCHANGED <<mvVars, notCmdVars>>

\* return nil after an error was logged (make-vm.go, lines 68 and 74), here
\* returning the error.
ReturnAfterError_Propagate(err) == err

\* return nil after an error was logged (make-vm.go, lines 68 and 74).
ReturnAfterError(err) == "nil"

Logged(level, message, detail) ==
    [level |-> level, message |-> message, detail |-> detail, tty |-> mvTty]

\* make-vm.go, lines 39-69: the logger, the instance and networks.Reconcile.
MvReconcile ==
    /\ mvPc = "start"
    /\ \E err \in {"nil", "reconcile failed"} :
         /\ mvCalls' = Append(mvCalls, Call("networks.Reconcile", err))
         /\ IF err # "nil"
            THEN /\ mvLog' = Append(mvLog, Logged("error", "Error reconciling networks: %s", err))
                 /\ mvRet' = ReturnAfterError(err)
                 /\ mvPc' = "done"
            ELSE /\ mvPc' = "reconciled"
                 /\ UNCHANGED <<mvLog, mvRet>>
    /\ UNCHANGED mvTty
    /\ UNCHANGED <<haVars, notCmdVars>>

\* make-vm.go, lines 71-75: start.Start.
MvStart ==
    /\ mvPc = "reconciled"
    /\ \E err \in {"nil", "start failed"} :
         /\ mvCalls' = Append(mvCalls, Call("start.Start", err))
         /\ IF err # "nil"
            THEN /\ mvLog' = Append(mvLog, Logged("error", "Error starting lima default machine: %s", err))
                 /\ mvRet' = ReturnAfterError(err)
                 /\ mvPc' = "done"
            ELSE /\ mvPc' = "started"
                 /\ UNCHANGED <<mvLog, mvRet>>
    /\ UNCHANGED mvTty
    /\ UNCHANGED <<haVars, notCmdVars>>

\* make-vm.go, lines 77-78: the event "All done!" and return nil.
MvAllDone ==
    /\ mvPc = "started"
    /\ mvLog' = Append(mvLog, Logged("event", "All done!", ""))
    /\ mvRet' = "nil"
    /\ mvPc' = "done"
    /\ UNCHANGED <<mvTty, mvCalls>>
    /\ UNCHANGED <<haVars, notCmdVars>>

\* One run of each command: hostagent with any values of its flags, with or
\* without an instance name, on any of the paths; makeVm with either value
\* of tty-disable.
CmdInit ==
    /\ CfgIdle
    /\ PmIdle
    /\ IpIdle
    /\ RenderIdle
    /\ EnIdle
    /\ GdIdle
    /\ \E pidfile \in {"", "p"}, socket \in {"", "s", "p"}, nerdctlArchive \in {"", "n"} :
         haFlags = ("pidfile" :> pidfile) @@ ("socket" :> socket)
                     @@ ("nerdctl-archive" :> nerdctlArchive)
    /\ haUndefined \in { {}, {"pidfile"}, {"socket"}, {"nerdctl-archive"} }
    /\ haArgs \in { <<>>, <<"unmanaged-default">> }
    /\ haDiskInit \in [Paths -> FoundAtStart]
    /\ haDisk = haDiskInit
    /\ haPc = "start"
    /\ haDeferred = <<>>
    /\ haCalls = <<>>
    /\ haRet = "none"
    /\ haServer = "none"
    /\ mvTty \in BOOLEAN
    /\ mvPc = "start"
    /\ mvCalls = <<>>
    /\ mvLog = <<>>
    /\ mvRet = "none"

CmdNext ==
    \/ HaPidfile \/ HaSocketFlag \/ HaNewAgent \/ HaRemoveSocket \/ HaListen
    \/ HaRun \/ HaServeEnds
    \/ MvReconcile \/ MvStart \/ MvAllDone

SpecCmd == CmdInit /\ [][CmdNext]_vars

----------------------------------------------------------------------------
(* Properties of hostagentRun and makeVm                                   *)

\* The pidfile flag is defined and not empty.
PidfileFlag == "pidfile" \notin haUndefined /\ haFlags.pidfile # ""
\* ... and something was at its path before the call.
PidfileFound == PidfileFlag /\ haDiskInit[haFlags.pidfile] # "absent"

HaCalled == { haCalls[k].call : k \in 1..Len(haCalls) }

\* C26: hostagentRun with a non-empty pidfile flag whose path already exists
\* returns the error "pidfile already exists"; what is at the path stays as
\* it was, and nothing beyond the flag lookup and os.Stat is called: the
\* socket flag is not looked up, no agent is created, no socket is removed or
\* listened on.
C26_ExistingPidfileRefused ==
    PidfileFound =>
      /\ haDisk = haDiskInit
      /\ haPc \in {"start", "done"}
      /\ haPc = "done" => haRet = "pidfile already exists"
      /\ HaCalled \subseteq {"GetString(pidfile)", "os.Stat(pidfile)"}
      /\ haServer = "none"

\* The call has returned "pidfile already exists" for a file at the pidfile
\* path, with the socket flag naming the same path: the file is still there.
C26_Witness ==
    /\ PidfileFound
    /\ haDiskInit["p"] = "file" /\ haFlags.pidfile = "p" /\ haFlags.socket = "p"
    /\ haPc = "done" /\ haRet = "pidfile already exists"
    /\ haDisk["p"] = "file"
    /\ haCalls[Len(haCalls)] = Call("os.Stat(pidfile)", "nil")

\* os.WriteFile wrote the pid.
WrotePid == \E k \in 1..Len(haCalls) : haCalls[k] = Call("os.WriteFile(pidfile)", "nil")

\* The returns behind the write of the pid.
LaterReturns ==
    { "flag accessed but not defined", "socket must be specified",
      "hostagent.New failed", "EACCES", "listen failed", "ha.Run failed", "nil" }

\* C27: once the pid is written, every return of hostagentRun behind the
\* write (empty socket, a failed flag lookup, hostagent.New failing,
\* os.RemoveAll(socket) or net.Listen failing, ha.Run returning) and a panic
\* leave nothing at the pidfile path, through the deferred os.RemoveAll; a
\* call that did not write the pid runs no removal of the pidfile and leaves
\* what it found at the pidfile path.
C27_PidfileRemovedOnReturn ==
    /\ (WrotePid /\ haPc \in {"done", "panic"}) =>
         /\ haDisk[haFlags.pidfile] = "absent"
         /\ "defer os.RemoveAll(pidfile)" \in HaCalled
    /\ (WrotePid /\ haPc = "done") => haRet \in LaterReturns
    /\ ~WrotePid =>
         /\ "defer os.RemoveAll(pidfile)" \notin HaCalled
         /\ PidfileFound => haDisk[haFlags.pidfile] = haDiskInit[haFlags.pidfile]
         /\ (PidfileFlag /\ ~PidfileFound) => haDisk[haFlags.pidfile] \in {"absent", "empty"}

\* The pid was written to "p", net.Listen on "s" failed and the call
\* returned: nothing is at "p".
C27_Witness ==
    /\ WrotePid /\ haPc = "done" /\ haRet = "listen failed"
    /\ haFlags.pidfile = "p" /\ haFlags.socket = "s"
    /\ haDiskInit["p"] = "absent" /\ haDisk["p"] = "absent"
    /\ haCalls[Len(haCalls)] = Call("defer os.RemoveAll(pidfile)", "dropped")

MvLogged(message) == \E k \in 1..Len(mvLog) : mvLog[k].message = message

\* C28: start.Start is called only after networks.Reconcile returned nil,
\* "All done!" is logged only after both returned nil, and makeVm returns nil
\* in all three outcomes: reconcile failed (start.Start not called), start
\* failed, both succeeded.
C28_StartAfterReconcile ==
    /\ (\E k \in 1..Len(mvCalls) : mvCalls[k].call = "start.Start") =>
         /\ Len(mvCalls) = 2
         /\ mvCalls[1] = Call("networks.Reconcile", "nil")
         /\ mvCalls[2].call = "start.Start"
    /\ MvLogged("All done!") =>
         mvCalls = << Call("networks.Reconcile", "nil"), Call("start.Start", "nil") >>
    /\ mvPc = "done" =>
         /\ mvRet = "nil"
         /\ \/ /\ mvCalls = << Call("networks.Reconcile", "reconcile failed") >>
               /\ MvLogged("Error reconciling networks: %s") /\ ~MvLogged("All done!")
            \/ /\ mvCalls = << Call("networks.Reconcile", "nil"),
                               Call("start.Start", "start failed") >>
               /\ MvLogged("Error starting lima default machine: %s")
               /\ ~MvLogged("All done!")
            \/ /\ mvCalls = << Call("networks.Reconcile", "nil"), Call("start.Start", "nil") >>
               /\ MvLogged("All done!") /\ Len(mvLog) = 1

\* start.Start failed after a successful reconcile: the error is logged and
\* makeVm has returned nil.
C28_Witness ==
    /\ mvPc = "done" /\ mvRet = "nil"
    /\ mvCalls = << Call("networks.Reconcile", "nil"), Call("start.Start", "start failed") >>
    /\ Len(mvLog) = 1 /\ mvLog[1].level = "error"

====
